---- MODULE Spec2Model ----
(***************************************************************************)
(* EMR batch agent: admission control over a shared connection pool.       *)
(*                                                                         *)
(* The model follows src/src/agents/emr: ConnectionRegistry (the store of  *)
(* batch registrations and the limits cache), AdmissionController          *)
(* (check_admission, release) and the models they exchange.                *)
(*                                                                         *)
(* A registration keeps the fields the decisions read: src_db_id,          *)
(* dag_run_id, parallel_hint, status, original_parallel and ttl. dag_id,   *)
(* table_name and started_at are carried through by the code unread and    *)
(* are left out. An optional value (Python None / an absent item key) is   *)
(* the empty set, a present value x is {x}.                                *)
(***************************************************************************)
EXTENDS Integers, FiniteSets, Sequences, TLC

----------------------------------------------------------------------------
(* Bounds of the model *)

\* largest parallel degree a caller asks for
MaxParallel == 3
\* max_connections an operator configures for the ADW source
MaxConn == 3
\* the clock stops advancing at this many seconds
MaxNow == 86401
\* largest number of running batches a wait estimate is asked for
MaxRunning == 70
\* most lexemes between the opening and the closing of a hint string
MaxLexemes == 2
\* most recognizers in a pattern chain
MaxRecognizers == 3
\* entries the injector's tracking list holds at most
MaxInjected == 2
\* the depth of recursion the interpreter allows (sys.getrecursionlimit(),
\* 1000 frames unless it is set otherwise), kept small
MaxDepth == 3

----------------------------------------------------------------------------
(* Program constants *)

ADW_SRC_DB_ID == 4
DEFAULT_THRESHOLD_PERCENT == 95
DEFAULT_MIN_PARALLEL == 2
UNKNOWN_MAX_CONNECTIONS == 100
UNKNOWN_THRESHOLD_PERCENT == 90
UNKNOWN_MIN_PARALLEL == 1
TTL_SECONDS == 86400
DEFAULT_WAIT_SECONDS == 30
MAX_WAIT_SECONDS == 300
QUEUE_BATCHES_PER_STEP == 10
QUEUE_FACTOR_CAP == 5
QUEUE_STEP_SECONDS == 10
DEFAULT_PARSED_PARALLEL == 1
DEFAULT_PARALLEL_HINT == 8
\* cost anomaly detection: thresholds and weights, in thousandths
RATIO_THRESHOLD == 500
RATIO_DECREASE_THRESHOLD == 300
STDDEV_MULTIPLIER == 2
TREND_CONSECUTIVE_DAYS == 3
TREND_MIN_INCREASE_RATE == 50
RATIO_WEIGHT == 400
STDDEV_WEIGHT == 350
TREND_WEIGHT == 250
SEVERITY_HIGH_THRESHOLD == 800
SEVERITY_MEDIUM_THRESHOLD == 500
ANOMALY_CONFIDENCE == 600
MIN_DATA_POINTS == 7
MIN_HISTORICAL_POINTS == 3
PREVIOUS_ZERO_SCORE == 500
\* pattern adjustments, in hundredths
DEFAULT_MAX_ADJUSTMENT == -40
ENV_MAX_ADJUSTMENT == 40
WEEKDAY_ADJUSTMENT == -20
TREND_ADJUSTMENT == -15

\* a source with no configured limits (not in the limits cache, no item in
\* the limits table)
UNKNOWN_SRC_DB_ID == ADW_SRC_DB_ID + 1

Sources == {ADW_SRC_DB_ID, UNKNOWN_SRC_DB_ID}
Runs == {"run_1", "run_2"}
\* parallel_hint is an unchecked int: a negative one and 0 are accepted too
ParallelChoices == (0 - 1)..MaxParallel
MinParallelChoices == {UNKNOWN_MIN_PARALLEL, DEFAULT_MIN_PARALLEL}
Callers == {"c1", "c2"}

None == {}
Some(x) == {x}
TheValue(opt) == CHOOSE x \in opt : TRUE

VARIABLES
    registry,       \* _mock_registry / the registry table: key -> registration
    limits_cache,   \* ConnectionRegistry._limits_cache: src_db_id -> limits
    is_mock,        \* ConnectionRegistry._is_mock
    now,            \* the wall clock, unix seconds from the model's start
    last,           \* the last call and what it returned to its caller
    log,            \* the messages the last call printed
    pc,             \* per concurrent caller: where it is in its call
    local           \* per concurrent caller: the locals of its call

vars == <<registry, limits_cache, is_mock, now, last, log, pc, local>>

----------------------------------------------------------------------------
(* models/connection_limits.py *)

ConnectionLimits(maxc, pct, minp) ==
    [max_connections |-> maxc, threshold_percent |-> pct, min_parallel |-> minp]

\* int(max_connections * threshold_percent / 100): true division, then
\* truncation toward zero; the operands are never negative here
threshold_connections(limits) ==
    (limits.max_connections * limits.threshold_percent) \div 100

----------------------------------------------------------------------------
(* models/batch_registration.py *)

\* BatchRegistration(...) with __post_init__: a missing ttl becomes now + 24h
BatchRegistration(s, r, p, orig, status, ttl, t) ==
    [src_db_id |-> s, dag_run_id |-> r, parallel_hint |-> p,
     original_parallel |-> orig, status |-> status,
     ttl |-> IF ttl = None THEN t + TTL_SECONDS ELSE TheValue(ttl)]

is_downgraded(reg) == reg.original_parallel # None

\* to_dynamodb_item: a field-by-field copy; original_parallel is written only
\* when it is not None, ttl always
to_dynamodb_item(reg) ==
    [src_db_id |-> reg.src_db_id, dag_run_id |-> reg.dag_run_id,
     parallel_hint |-> reg.parallel_hint, status |-> reg.status,
     original_parallel |-> reg.original_parallel, ttl |-> reg.ttl]

\* from_dynamodb_item: a falsy original_parallel or ttl (absent, or 0) reads
\* as None, and __post_init__ then gives a fresh ttl
from_dynamodb_item(item, t) ==
    BatchRegistration(
        item.src_db_id, item.dag_run_id, item.parallel_hint,
        {x \in item.original_parallel : x # 0}, item.status,
        IF item.ttl = 0 THEN None ELSE Some(item.ttl), t)

----------------------------------------------------------------------------
(* services/connection_registry.py *)

\* get_limits: the cache, else the limits table (no item for an unconfigured
\* source, and a failing read is swallowed), else the conservative default
get_limits(cache, s) ==
    IF s \in DOMAIN cache
    THEN cache[s]
    ELSE ConnectionLimits(UNKNOWN_MAX_CONNECTIONS, UNKNOWN_THRESHOLD_PERCENT,
                          UNKNOWN_MIN_PARALLEL)

\* the store's upsert, keyed by (src_db_id, dag_run_id)
Put(reg, registration) ==
    LET key == <<registration.src_db_id, registration.dag_run_id>>
    IN [k \in DOMAIN reg \cup {key} |-> IF k = key THEN registration ELSE reg[k]]

\* register_batch: the write; a failing write is caught, printed, and False
\* is returned
register_batch(reg, mock, registration, putFails) ==
    IF mock
    THEN [registry |-> Put(reg, registration), ok |-> TRUE, log |-> {}]
    ELSE IF putFails
    THEN [registry |-> reg, ok |-> FALSE, log |-> {"Failed to register batch"}]
    ELSE [registry |-> Put(reg, to_dynamodb_item(registration)),
          ok |-> TRUE, log |-> {}]

\* get_running_batches as it would be without the filter on src_db_id
get_running_batches_all_sources(reg, s, scanFails) ==
    IF scanFails
    THEN {}
    ELSE {k \in DOMAIN reg : reg[k].status = "RUNNING"}

\* get_running_batches: the keys of the source's registrations whose status
\* is RUNNING (neither store path reads ttl); a failing query is caught,
\* printed, and [] is returned
get_running_batches(reg, s, scanFails) ==
    IF scanFails
    THEN {}
    ELSE {k \in DOMAIN reg : k[1] = s /\ reg[k].status = "RUNNING"}

ScanLog(scanFails) ==
    IF scanFails THEN {"Failed to get running batches"} ELSE {}

RECURSIVE SumHints(_, _)
SumHints(reg, keys) ==
    IF keys = {}
    THEN 0
    ELSE LET k == CHOOSE x \in keys : TRUE
         IN reg[k].parallel_hint + SumHints(reg, keys \ {k})

\* get_current_usage: sum of parallel_hint over get_running_batches
get_current_usage(reg, s, scanFails) ==
    SumHints(reg, get_running_batches(reg, s, scanFails))

\* get_waiting_count: a failing query is caught silently and counts as 0
get_waiting_count(reg, s, countFails) ==
    IF countFails
    THEN 0
    ELSE Cardinality({k \in DOMAIN reg : k[1] = s /\ reg[k].status = "WAITING"})

\* str(src_db_id), for ids of one digit
str(n) == <<"0", "1", "2", "3", "4", "5", "6", "7", "8", "9">>[n + 1]

\* get_status_summary: one entry for each source of the limits cache, under
\* the key str(src_db_id) (name and the timestamp are left out); f says
\* which of the three reads fail
get_status_summary(reg, cache, f) ==
    [key \in {str(s) : s \in DOMAIN cache} |->
        LET s == CHOOSE x \in DOMAIN cache : str(x) = key
            current_usage == get_current_usage(reg, s, f.usage)
        IN [max_connections |-> cache[s].max_connections,
            threshold |-> threshold_connections(cache[s]),
            current_usage |-> current_usage,
            available |-> threshold_connections(cache[s]) - current_usage,
            active_batches |-> Cardinality(get_running_batches(reg, s, f.running)),
            waiting_batches |-> get_waiting_count(reg, s, f.count)]]

\* unregister_batch, real path, first half: get_dynamodb_item by key
\* (None when the key is not stored)
GetItem(reg, s, r) ==
    IF <<s, r>> \in DOMAIN reg THEN Some(reg[<<s, r>>]) ELSE None

\* unregister_batch, real path, second half: the registration rebuilt from
\* the item that was read, with status COMPLETED
CompletedFromItem(item, t) ==
    [from_dynamodb_item(item, t) EXCEPT !.status = "COMPLETED"]

\* unregister_batch as it would be if only a RUNNING registration could be
\* unregistered: an already COMPLETED one is reported as not found
unregister_batch_running_only(reg, mock, s, r, t, getFails, putFails) ==
    LET key == <<s, r>>
    IN IF ~mock /\ getFails
       THEN [registry |-> reg, registration |-> None, raised |-> TRUE]
       ELSE IF key \notin DOMAIN reg \/ reg[key].status # "RUNNING"
       THEN [registry |-> reg, registration |-> None, raised |-> FALSE]
       ELSE IF ~mock /\ putFails
       THEN [registry |-> reg, registration |-> None, raised |-> TRUE]
       ELSE LET registration == [reg[key] EXCEPT !.status = "COMPLETED"]
            IN [registry |-> Put(reg, registration),
                registration |-> Some(registration), raised |-> FALSE]

\* unregister_batch as it would be if it deleted the registration instead of
\* marking it COMPLETED
unregister_batch_deleting(reg, mock, s, r, t, getFails, putFails) ==
    LET key == <<s, r>>
    IN IF ~mock /\ getFails
       THEN [registry |-> reg, registration |-> None, raised |-> TRUE]
       ELSE IF key \notin DOMAIN reg
       THEN [registry |-> reg, registration |-> None, raised |-> FALSE]
       ELSE IF ~mock /\ putFails
       THEN [registry |-> reg, registration |-> None, raised |-> TRUE]
       ELSE [registry |-> [k \in DOMAIN reg \ {key} |-> reg[k]],
             registration |-> Some([reg[key] EXCEPT !.status = "COMPLETED"]),
             raised |-> FALSE]

\* unregister_batch: mark the stored registration COMPLETED, whatever its
\* status was, and return it; None when the key is not stored. The real path
\* reads the item, rebuilds the registration and writes it back, and a
\* failing read or write raises.
unregister_batch(reg, mock, s, r, t, getFails, putFails) ==
    LET key == <<s, r>>
    IN IF mock
       THEN IF key \notin DOMAIN reg
            THEN [registry |-> reg, registration |-> None, raised |-> FALSE]
            ELSE LET registration == [reg[key] EXCEPT !.status = "COMPLETED"]
                 IN [registry |-> Put(reg, registration),
                     registration |-> Some(registration), raised |-> FALSE]
       ELSE IF getFails
       THEN [registry |-> reg, registration |-> None, raised |-> TRUE]
       ELSE IF GetItem(reg, s, r) = None
       THEN [registry |-> reg, registration |-> None, raised |-> FALSE]
       ELSE LET registration == CompletedFromItem(TheValue(GetItem(reg, s, r)), t)
            IN IF putFails
               THEN [registry |-> reg, registration |-> None, raised |-> TRUE]
               ELSE [registry |-> Put(reg, to_dynamodb_item(registration)),
                     registration |-> Some(registration), raised |-> FALSE]

----------------------------------------------------------------------------
(* models/admission_result.py *)

AdmissionResult(allowed, parallel, downgraded, original_parallel, wait_seconds, queue_position, reason, current_usage, available) ==
    [allowed |-> allowed, parallel |-> parallel, downgraded |-> downgraded,
     original_parallel |-> original_parallel, wait_seconds |-> wait_seconds,
     queue_position |-> queue_position, reason |-> reason,
     current_usage |-> current_usage, available |-> available]

ReleaseResult(released, released_connections, current_usage, error) ==
    [released |-> released, released_connections |-> released_connections,
     current_usage |-> current_usage, error |-> error]

----------------------------------------------------------------------------
(* services/hint_parser.py                                                  *)
(*                                                                          *)
(* A hint string is the sequence of its lexemes, "" the empty sequence. A   *)
(* lexeme the pattern PARALLEL\s*\(\s*(\d+)\s*\), matched ignoring case,    *)
(* matches has kind "PARALLEL", its spelling with the digits taken out, and *)
(* its degree; any other lexeme has kind "OTHER" and its text.              *)

Lexeme(kind, text, degree) == [kind |-> kind, text |-> text, degree |-> degree]

\* the text f"PARALLEL({parallel})"
ParallelLexeme(parallel) == Lexeme("PARALLEL", "PARALLEL(#)", parallel)

HintOpen == Lexeme("OTHER", "/*+", 0)
HintClose == Lexeme("OTHER", "*/", 0)
FullA == Lexeme("OTHER", "FULL(A)", 0)
IndexB == Lexeme("OTHER", "INDEX(B)", 0)

\* the places re.search / re.sub find a match at, leftmost first
ParallelMatches(hint) == {i \in DOMAIN hint : hint[i].kind = "PARALLEL"}

FirstMatch(hint) ==
    CHOOSE i \in ParallelMatches(hint) : \A j \in ParallelMatches(hint) : i <= j

\* parse_parallel_hint(hint, default)
parse_parallel_hint(hint, default) ==
    IF hint = <<>>
    THEN default
    ELSE IF ParallelMatches(hint) # {}
    THEN hint[FirstMatch(hint)].degree
    ELSE default

\* build_parallel_hint(parallel, include_full)
build_parallel_hint(parallel, include_full) ==
    IF include_full
    THEN <<HintOpen, ParallelLexeme(parallel), FullA, HintClose>>
    ELSE <<HintOpen, ParallelLexeme(parallel), HintClose>>

\* re.sub(pattern, f"PARALLEL({new_parallel})", hint) with no count: every
\* match is replaced
RECURSIVE SubParallel(_, _)
SubParallel(hint, new_parallel) ==
    IF hint = <<>>
    THEN <<>>
    ELSE <<IF Head(hint).kind = "PARALLEL"
           THEN ParallelLexeme(new_parallel)
           ELSE Head(hint)>>
         \o SubParallel(Tail(hint), new_parallel)

\* adjust_hint(original_hint, new_parallel)
adjust_hint(original_hint, new_parallel) ==
    IF original_hint = <<>>
    THEN build_parallel_hint(new_parallel, TRUE)
    ELSE SubParallel(original_hint, new_parallel)

----------------------------------------------------------------------------
(* services/admission_controller.py *)

Min(a, b) == IF a <= b THEN a ELSE b

\* _find_acceptable_parallel: the loop from the value `adjusted` holds at
\* its head; None or Some(parallel)
RECURSIVE HalvingLoop(_, _, _, _)
HalvingLoop(adjusted, current_usage, threshold, min_parallel) ==
    IF adjusted < min_parallel
    THEN None
    ELSE LET halved == adjusted \div 2
             next == IF halved < min_parallel THEN min_parallel ELSE halved
         IN IF current_usage + next <= threshold
            THEN Some(next)
            ELSE IF next = min_parallel
            THEN None
            ELSE HalvingLoop(next, current_usage, threshold, min_parallel)

\* the search as it would be without the clamp to min_parallel
RECURSIVE HalvingLoopNoClamp(_, _, _, _)
HalvingLoopNoClamp(adjusted, current_usage, threshold, min_parallel) ==
    IF adjusted < min_parallel
    THEN None
    ELSE LET next == adjusted \div 2
         IN IF current_usage + next <= threshold
            THEN Some(next)
            ELSE IF next = min_parallel
            THEN None
            ELSE HalvingLoopNoClamp(next, current_usage, threshold, min_parallel)

find_acceptable_parallel_no_clamp(current_usage, threshold, requested, min_parallel) ==
    HalvingLoopNoClamp(requested, current_usage, threshold, min_parallel)

\* the search as it would be if it gave up on reaching min_parallel
RECURSIVE HalvingLoopAboveMinimum(_, _, _, _)
HalvingLoopAboveMinimum(adjusted, current_usage, threshold, min_parallel) ==
    IF adjusted < min_parallel
    THEN None
    ELSE LET halved == adjusted \div 2
             next == IF halved < min_parallel THEN min_parallel ELSE halved
         IN IF next = min_parallel
            THEN None
            ELSE IF current_usage + next <= threshold
            THEN Some(next)
            ELSE HalvingLoopAboveMinimum(next, current_usage, threshold, min_parallel)

find_acceptable_parallel_above_minimum(current_usage, threshold, requested, min_parallel) ==
    HalvingLoopAboveMinimum(requested, current_usage, threshold, min_parallel)

find_acceptable_parallel(current_usage, threshold, requested, min_parallel) ==
    HalvingLoop(requested, current_usage, threshold, min_parallel)

\* _estimate_wait_time as it would be with no cap on the queue factor
estimate_wait_uncapped(running_count, default_wait_seconds, max_wait_seconds) ==
    LET queue_factor == running_count \div QUEUE_BATCHES_PER_STEP
        estimated == default_wait_seconds + queue_factor * QUEUE_STEP_SECONDS
    IN IF running_count = 0
       THEN default_wait_seconds
       ELSE Min(estimated, max_wait_seconds)

\* _estimate_wait_time from len(running) and the controller's two settings
estimate_wait(running_count, default_wait_seconds, max_wait_seconds) ==
    LET queue_factor == Min(running_count \div QUEUE_BATCHES_PER_STEP,
                            QUEUE_FACTOR_CAP)
        estimated == default_wait_seconds + queue_factor * QUEUE_STEP_SECONDS
    IN IF running_count = 0
       THEN default_wait_seconds
       ELSE Min(estimated, max_wait_seconds)

\* _estimate_wait_time of a controller built with DEFAULT_WAIT_SECONDS and
\* MAX_WAIT_SECONDS unset in the environment
estimate_wait_time(reg, s, scanFails) ==
    estimate_wait(Cardinality(get_running_batches(reg, s, scanFails)),
                  DEFAULT_WAIT_SECONDS, MAX_WAIT_SECONDS)

\* case 1 as it would be if it recorded original_parallel like case 2 does
AdmitFull_with_original(reg, mock, s, r, p, current_usage, threshold, t, putFails) ==
    LET registration == BatchRegistration(s, r, p, Some(p), "RUNNING", None, t)
        written == register_batch(reg, mock, registration, putFails)
    IN [registry |-> written.registry,
        result |-> AdmissionResult(TRUE, p, FALSE, None, 0, 0, "",
                                   current_usage + p,
                                   threshold - current_usage - p),
        log |-> written.log]

\* check_admission, case 1: the request fits as asked
AdmitFull(reg, mock, s, r, p, current_usage, threshold, t, putFails) ==
    LET registration == BatchRegistration(s, r, p, None, "RUNNING", None, t)
        written == register_batch(reg, mock, registration, putFails)
    IN [registry |-> written.registry,
        result |-> AdmissionResult(TRUE, p, FALSE, None, 0, 0, "",
                                   current_usage + p,
                                   threshold - current_usage - p),
        log |-> written.log]

\* check_admission, case 2: a smaller parallel degree fits
AdmitDowngraded(reg, mock, s, r, p, adjusted, current_usage, threshold, t, putFails) ==
    LET registration == BatchRegistration(s, r, adjusted, Some(p), "RUNNING", None, t)
        written == register_batch(reg, mock, registration, putFails)
    IN [registry |-> written.registry,
        result |-> AdmissionResult(TRUE, adjusted, TRUE, Some(p), 0, 0,
                                   "partial_capacity_available",
                                   current_usage + adjusted,
                                   threshold - current_usage - adjusted),
        log |-> written.log]

\* case 3 as it would be if the controller queued the caller itself
DenyWait_persisting(reg, mock, s, r, p, current_usage, threshold, t, waitScanFails, countFails) ==
    [registry |-> Put(reg, BatchRegistration(s, r, p, None, "WAITING", None, t)),
     result |-> AdmissionResult(FALSE, p, FALSE, None,
                                estimate_wait_time(reg, s, waitScanFails),
                                get_waiting_count(reg, s, countFails) + 1,
                                "connection_limit_exceeded",
                                current_usage, threshold - current_usage),
     log |-> ScanLog(waitScanFails)]

\* check_admission, case 3: nothing fits; the store is read, never written
DenyWait(reg, mock, s, r, p, current_usage, threshold, t, waitScanFails, countFails) ==
    [registry |-> reg,
     result |-> AdmissionResult(FALSE, p, FALSE, None,
                                estimate_wait_time(reg, s, waitScanFails),
                                get_waiting_count(reg, s, countFails) + 1,
                                "connection_limit_exceeded",
                                current_usage, threshold - current_usage),
     log |-> ScanLog(waitScanFails)]

\* check_admission from the point where limits and current_usage are read
Decide(reg, mock, limits, current_usage, s, r, p, t, f) ==
    LET threshold == threshold_connections(limits)
        adjusted == find_acceptable_parallel(current_usage, threshold, p,
                                             limits.min_parallel)
    IN IF current_usage + p <= threshold
       THEN AdmitFull(reg, mock, s, r, p, current_usage, threshold, t, f.put)
       ELSE IF adjusted # None
       THEN AdmitDowngraded(reg, mock, s, r, p, TheValue(adjusted),
                            current_usage, threshold, t, f.put)
       ELSE DenyWait(reg, mock, s, r, p, current_usage, threshold, t,
                     f.wait_scan, f.count)

check_admission(reg, cache, mock, s, r, p, t, f) ==
    LET decided == Decide(reg, mock, get_limits(cache, s),
                          get_current_usage(reg, s, f.scan), s, r, p, t, f)
    IN [decided EXCEPT !.log = @ \cup ScanLog(f.scan)]

\* release as it would be if a missing registration were reported without
\* an error
release_not_found_silent(reg, mock, s, r, t, f) ==
    LET done == unregister_batch(reg, mock, s, r, t, f.get, f.put)
    IN IF done.raised
       THEN [registry |-> done.registry, raised |-> TRUE,
             result |-> ReleaseResult(FALSE, 0, 0, None), log |-> {}]
       ELSE IF done.registration = None
       THEN [registry |-> done.registry, raised |-> FALSE,
             result |-> ReleaseResult(FALSE, 0, 0, None), log |-> {}]
       ELSE [registry |-> done.registry, raised |-> FALSE,
             result |-> ReleaseResult(
                 TRUE, TheValue(done.registration).parallel_hint,
                 get_current_usage(done.registry, s, f.scan), None),
             log |-> ScanLog(f.scan)]

\* release
release(reg, mock, s, r, t, f) ==
    LET done == unregister_batch(reg, mock, s, r, t, f.get, f.put)
    IN IF done.raised
       THEN [registry |-> done.registry, raised |-> TRUE,
             result |-> ReleaseResult(FALSE, 0, 0, None), log |-> {}]
       ELSE IF done.registration = None
       THEN [registry |-> done.registry, raised |-> FALSE,
             result |-> ReleaseResult(FALSE, 0, 0, Some("Batch not found")),
             log |-> {}]
       ELSE [registry |-> done.registry, raised |-> FALSE,
             result |-> ReleaseResult(
                 TRUE, TheValue(done.registration).parallel_hint,
                 get_current_usage(done.registry, s, f.scan), None),
             log |-> ScanLog(f.scan)]

----------------------------------------------------------------------------
(* The calls *)

Call(action, s, r, p, raised, result) ==
    [action |-> action, src_db_id |-> s, dag_run_id |-> r, parallel_hint |-> p,
     raised |-> raised, result |-> result]

NoCall == Call("none", 0, "", 0, FALSE, ReleaseResult(FALSE, 0, 0, None))

\* The store calls a call makes, in the order it makes them; only a call
\* that is made can fail, and none fails in mock mode.
AdmissionStoreCalls(reg, cache, s, p, scanFails) ==
    LET limits == get_limits(cache, s)
        current_usage == get_current_usage(reg, s, scanFails)
        threshold == threshold_connections(limits)
    IN IF \/ current_usage + p <= threshold
          \/ find_acceptable_parallel(current_usage, threshold, p,
                                      limits.min_parallel) # None
       THEN {"scan", "put"}
       ELSE {"scan", "wait_scan", "count"}

AdmissionFailures(reg, cache, mock, s, p) ==
    IF mock
    THEN {[scan |-> FALSE, put |-> FALSE, wait_scan |-> FALSE, count |-> FALSE]}
    ELSE LET made == [scanFails \in BOOLEAN |->
                         AdmissionStoreCalls(reg, cache, s, p, scanFails)]
         IN {f \in [scan : BOOLEAN, put : BOOLEAN,
                    wait_scan : BOOLEAN, count : BOOLEAN] :
                /\ f.put => "put" \in made[f.scan]
                /\ f.wait_scan => "wait_scan" \in made[f.scan]
                /\ f.count => "count" \in made[f.scan]}

ReleaseFailures(reg, mock, s, r) ==
    {f \in [get : BOOLEAN, put : BOOLEAN, scan : BOOLEAN] :
        /\ mock => ~(f.get \/ f.put \/ f.scan)
        /\ f.put => ~f.get /\ <<s, r>> \in DOMAIN reg
        /\ f.scan => ~f.get /\ ~f.put /\ <<s, r>> \in DOMAIN reg}

NoLocal == [src_db_id |-> 0, dag_run_id |-> "", parallel_hint |-> 0,
            current_usage |-> 0, item |-> None]

Init ==
    /\ registry = [k \in {} |-> None]
    /\ limits_cache \in
         {[s \in {ADW_SRC_DB_ID} |->
              ConnectionLimits(MaxConn, DEFAULT_THRESHOLD_PERCENT, m)] :
          m \in MinParallelChoices}
    /\ is_mock \in BOOLEAN
    /\ now = 0
    /\ last = NoCall
    /\ log = {}
    /\ pc = [c \in Callers |-> "idle"]
    /\ local = [c \in Callers |-> NoLocal]

\* AdmissionController.check_admission, one whole call
CheckAdmission(s, r, p) ==
    \E f \in AdmissionFailures(registry, limits_cache, is_mock, s, p) :
        LET out == check_admission(registry, limits_cache, is_mock, s, r, p, now, f)
        IN /\ registry' = out.registry
           /\ last' = Call("acquire", s, r, p, FALSE, out.result)
           /\ log' = out.log
           /\ UNCHANGED <<limits_cache, is_mock, now, pc, local>>

\* AdmissionController.release, one whole call
Release(s, r) ==
    \E f \in ReleaseFailures(registry, is_mock, s, r) :
        LET out == release(registry, is_mock, s, r, now, f)
        IN /\ registry' = out.registry
           /\ last' = Call("release", s, r, 0, out.raised, out.result)
           /\ log' = out.log
           /\ UNCHANGED <<limits_cache, is_mock, now, pc, local>>

\* the clock passes a registration's time to live
AdvanceTime ==
    /\ now + TTL_SECONDS + 1 <= MaxNow
    /\ now' = now + TTL_SECONDS + 1
    /\ UNCHANGED <<registry, limits_cache, is_mock, last, log, pc, local>>

\* calls on the configured source, one after the other
Next ==
    \/ \E r \in Runs, p \in ParallelChoices : CheckAdmission(ADW_SRC_DB_ID, r, p)
    \/ \E r \in Runs : Release(ADW_SRC_DB_ID, r)

Spec == Init /\ [][Next]_vars

\* calls that ask for a parallel degree of at least 1, while the clock
\* passes the registrations' time to live
NextValid ==
    \/ \E r \in Runs, p \in 1..MaxParallel : CheckAdmission(ADW_SRC_DB_ID, r, p)
    \/ \E r \in Runs : Release(ADW_SRC_DB_ID, r)
    \/ AdvanceTime

SpecValid == Init /\ [][NextValid]_vars

\* calls on the configured source and on a source that has no limits of its
\* own, one after the other; each source runs one batch, admitted again and
\* again
NextSources ==
    \/ \E s \in Sources, p \in 1..MaxParallel : CheckAdmission(s, "run_1", p)
    \/ \E s \in Sources : Release(s, "run_1")

SpecSources == Init /\ [][NextSources]_vars

\* the reads of get_status_summary that fail; none does in mock mode
StatusFailures(mock) ==
    {f \in [usage : BOOLEAN, running : BOOLEAN, count : BOOLEAN] :
        mock => ~(f.usage \/ f.running \/ f.count)}

\* lambda_handler's status action: AdmissionController.get_status
GetStatus ==
    \E f \in StatusFailures(is_mock) :
        /\ last' = [action |-> "status",
                    summary |-> get_status_summary(registry, limits_cache, f)]
        /\ log' = IF f.usage \/ f.running THEN ScanLog(TRUE) ELSE {}
        /\ UNCHANGED <<registry, limits_cache, is_mock, now, pc, local>>

\* the calls of SpecSources, and the status asked for between them
NextStatus ==
    \/ \E s \in Sources, p \in 1..MaxParallel : CheckAdmission(s, "run_1", p)
    \/ \E s \in Sources : Release(s, "run_1")
    \/ GetStatus

SpecStatus == Init /\ [][NextStatus]_vars

----------------------------------------------------------------------------
(* Functions applied on their own. One controller, and each step is one     *)
(* call of the function on inputs of the caller's choosing; `last` holds    *)
(* the call and what it returned.                                           *)

InitPure ==
    /\ Init
    /\ is_mock
    /\ limits_cache[ADW_SRC_DB_ID].min_parallel = DEFAULT_MIN_PARALLEL

\* DEFAULT_WAIT_SECONDS and MAX_WAIT_SECONDS as the environment may set them
DefaultWaitChoices ==
    {DEFAULT_WAIT_SECONDS, MAX_WAIT_SECONDS + QUEUE_STEP_SECONDS}
MaxWaitChoices ==
    {MAX_WAIT_SECONDS, DEFAULT_WAIT_SECONDS + 2 * QUEUE_STEP_SECONDS}

\* _estimate_wait_time with running_count batches RUNNING on the source
EstimateWaitTime(running_count, default_wait_seconds, max_wait_seconds) ==
    /\ last' = [action |-> "estimate_wait_time",
                running_count |-> running_count,
                default_wait_seconds |-> default_wait_seconds,
                max_wait_seconds |-> max_wait_seconds,
                result |-> estimate_wait(running_count, default_wait_seconds,
                                        max_wait_seconds)]
    /\ UNCHANGED <<registry, limits_cache, is_mock, now, log, pc, local>>

NextWait ==
    \E n \in 0..MaxRunning, d \in DefaultWaitChoices, m \in MaxWaitChoices :
        EstimateWaitTime(n, d, m)

SpecWait == InitPure /\ [][NextWait]_vars

\* the lexemes a caller writes between the opening and the closing
LexemeChoices ==
    {Lexeme("PARALLEL", text, k) :
        text \in {"PARALLEL(#)", "parallel ( # )"}, k \in 1..MaxParallel}
    \cup {FullA, IndexB}

RECURSIVE Bodies(_)
Bodies(n) ==
    IF n = 0
    THEN {<<>>}
    ELSE Bodies(n - 1)
         \cup {Append(b, x) : b \in {c \in Bodies(n - 1) : Len(c) = n - 1},
                              x \in LexemeChoices}

\* "" and the hints /*+ ... */ of at most MaxLexemes lexemes
Hints == {<<>>} \cup {<<HintOpen>> \o b \o <<HintClose>> : b \in Bodies(MaxLexemes)}

ParseParallelHint(hint, default) ==
    /\ last' = [action |-> "parse_parallel_hint", hint |-> hint,
                default |-> default,
                parsed |-> parse_parallel_hint(hint, default)]
    /\ UNCHANGED <<registry, limits_cache, is_mock, now, log, pc, local>>

BuildParallelHint(parallel, include_full) ==
    /\ last' = [action |-> "build_parallel_hint", hint |-> <<>>,
                parallel |-> parallel,
                result |-> build_parallel_hint(parallel, include_full)]
    /\ UNCHANGED <<registry, limits_cache, is_mock, now, log, pc, local>>

AdjustHint(original_hint, new_parallel) ==
    /\ last' = [action |-> "adjust_hint", hint |-> original_hint,
                parallel |-> new_parallel,
                result |-> adjust_hint(original_hint, new_parallel)]
    /\ UNCHANGED <<registry, limits_cache, is_mock, now, log, pc, local>>

NextHint ==
    \/ \E h \in Hints, d \in {DEFAULT_PARSED_PARALLEL, MaxParallel} :
          ParseParallelHint(h, d)
    \/ \E n \in 1..MaxParallel, full \in BOOLEAN : BuildParallelHint(n, full)
    \/ \E h \in Hints, n \in 1..MaxParallel : AdjustHint(h, n)

SpecHint == InitPure /\ [][NextHint]_vars

----------------------------------------------------------------------------
(* _find_acceptable_parallel run on its own, one iteration of its while     *)
(* loop a step. `last` holds the call: its arguments, the local `adjusted`, *)
(* whether it has returned and what.                                        *)

FindCall(current_usage, threshold, requested, min_parallel, adjusted, returned, result) ==
    [action |-> "find_acceptable_parallel", current_usage |-> current_usage,
     threshold |-> threshold, requested |-> requested,
     min_parallel |-> min_parallel, adjusted |-> adjusted,
     returned |-> returned, result |-> result]

Finding == last.action = "find_acceptable_parallel" /\ ~last.returned

\* the arguments: usage and threshold of a small pool, a request of any
\* sign, and the min_parallel of a limits item, which is read unvalidated
UsageChoices == 0..MaxConn
RequestedChoices == (0 - 1)..(2 * MaxParallel)
LimitsMinParallelChoices == (0 - 1)..DEFAULT_MIN_PARALLEL

\* the call: adjusted = requested
FindAcceptableParallel(current_usage, threshold, requested, min_parallel) ==
    /\ ~Finding
    /\ last' = FindCall(current_usage, threshold, requested, min_parallel,
                        requested, FALSE, None)
    /\ UNCHANGED <<registry, limits_cache, is_mock, now, log, pc, local>>

\* the loop test fails: return None
FindLoopExit ==
    /\ Finding
    /\ last.adjusted < last.min_parallel
    /\ last' = [last EXCEPT !.returned = TRUE, !.result = None]
    /\ UNCHANGED <<registry, limits_cache, is_mock, now, log, pc, local>>

\* one iteration of the loop body
FindLoopBody ==
    /\ Finding
    /\ last.adjusted >= last.min_parallel
    /\ LET halved == last.adjusted \div 2
           adjusted == IF halved < last.min_parallel THEN last.min_parallel ELSE halved
       IN last' = IF last.current_usage + adjusted <= last.threshold
                  THEN [last EXCEPT !.adjusted = adjusted, !.returned = TRUE,
                                    !.result = Some(adjusted)]
                  ELSE IF adjusted = last.min_parallel
                  THEN [last EXCEPT !.adjusted = adjusted, !.returned = TRUE,
                                    !.result = None]
                  ELSE [last EXCEPT !.adjusted = adjusted]
    /\ UNCHANGED <<registry, limits_cache, is_mock, now, log, pc, local>>

NextFind ==
    \/ \E current_usage \in UsageChoices, threshold \in UsageChoices,
          requested \in RequestedChoices, min_parallel \in LimitsMinParallelChoices :
          FindAcceptableParallel(current_usage, threshold, requested, min_parallel)
    \/ FindLoopExit
    \/ FindLoopBody

\* a call that has begun keeps running
SpecFind ==
    InitPure /\ [][NextFind]_vars /\ WF_vars(FindLoopExit) /\ WF_vars(FindLoopBody)

----------------------------------------------------------------------------
(* handler.py                                                               *)
(*                                                                          *)
(* An event holds action and, each present or not, dag_id, dag_run_id,      *)
(* src_db_id and parallel_hint (an int or a hint string). The status action *)
(* is GetStatus, above.                                                     *)

\* `not x` for what event.get returned: None, "" and 0 are falsy
FalsyStr(opt) == opt = None \/ TheValue(opt) = ""
FalsyInt(opt) == opt = None \/ TheValue(opt) = 0

MissingFieldsResponse(required) ==
    [error |-> "Missing required fields", required |-> required]

\* lambda_handler's except branch; str(e) is the store's message
ExceptionResponse(action) == [error |-> "exception", action |-> action]

UnknownActionResponse(action) ==
    [error |-> "Unknown action", valid_actions |-> <<"acquire", "release", "status">>]

\* AdmissionResult.to_response
AdmissionResponse(result) ==
    IF result.allowed
    THEN IF result.downgraded
         THEN [allowed |-> TRUE, current_usage |-> result.current_usage,
               parallel |-> result.parallel, available |-> result.available,
               downgraded |-> TRUE,
               original_parallel |-> TheValue(result.original_parallel),
               adjusted_parallel |-> result.parallel,
               reason |-> IF result.reason = ""
                          THEN "partial_capacity_available" ELSE result.reason]
         ELSE [allowed |-> TRUE, current_usage |-> result.current_usage,
               parallel |-> result.parallel, available |-> result.available]
    ELSE [allowed |-> FALSE, current_usage |-> result.current_usage,
          wait_seconds |-> result.wait_seconds,
          queue_position |-> result.queue_position,
          reason |-> IF result.reason = ""
                     THEN "connection_limit_exceeded" ELSE result.reason]

\* ReleaseResult.to_response
ReleaseResponse(result) ==
    IF result.error # None
    THEN [released |-> result.released,
          released_connections |-> result.released_connections,
          current_usage |-> result.current_usage,
          error |-> TheValue(result.error)]
    ELSE [released |-> result.released,
          released_connections |-> result.released_connections,
          current_usage |-> result.current_usage]

\* event.get("parallel_hint", 8), parsed when it is a string
EventParallelHint(event) ==
    IF event.parallel_hint.kind = "absent"
    THEN DEFAULT_PARALLEL_HINT
    ELSE IF event.parallel_hint.kind = "str"
    THEN parse_parallel_hint(event.parallel_hint.str, DEFAULT_PARSED_PARALLEL)
    ELSE event.parallel_hint.int

HandlesAdmission(event) ==
    ~(FalsyStr(event.dag_id) \/ FalsyStr(event.dag_run_id) \/ FalsyInt(event.src_db_id))

handle_acquire(reg, cache, mock, event, t, f) ==
    IF ~HandlesAdmission(event)
    THEN [registry |-> reg, log |-> {},
          response |-> MissingFieldsResponse(<<"dag_id", "dag_run_id", "src_db_id">>)]
    ELSE LET out == check_admission(reg, cache, mock, TheValue(event.src_db_id),
                                    TheValue(event.dag_run_id),
                                    EventParallelHint(event), t, f)
         IN [registry |-> out.registry, log |-> out.log,
             response |-> AdmissionResponse(out.result)]

HandlesRelease(event) ==
    ~(FalsyStr(event.dag_run_id) \/ FalsyInt(event.src_db_id))

handle_release(reg, mock, event, t, f) ==
    IF ~HandlesRelease(event)
    THEN [registry |-> reg, log |-> {},
          response |-> MissingFieldsResponse(<<"dag_run_id", "src_db_id">>)]
    ELSE LET out == release(reg, mock, TheValue(event.src_db_id),
                            TheValue(event.dag_run_id), t, f)
         IN [registry |-> out.registry, log |-> out.log,
             response |-> IF out.raised
                          THEN ExceptionResponse(event.action)
                          ELSE ReleaseResponse(out.result)]

\* the events callers send
ParallelHintChoices ==
    {[kind |-> "absent", int |-> 0, str |-> <<>>]}
    \cup {[kind |-> "int", int |-> p, str |-> <<>>] : p \in ParallelChoices}
    \cup {[kind |-> "str", int |-> 0, str |-> h] :
             h \in {<<>>, build_parallel_hint(MaxParallel, TRUE)}}

Events ==
    [action : {"acquire", "release", "restart"},
     dag_id : {None, Some("batch_001")},
     dag_run_id : {None, Some("run_1")},
     src_db_id : {None, Some(0), Some(ADW_SRC_DB_ID)},
     parallel_hint : ParallelHintChoices]

\* lambda_handler, the acquire branch
HandleAcquire(event) ==
    /\ event.action = "acquire"
    /\ \E f \in IF HandlesAdmission(event)
               THEN AdmissionFailures(registry, limits_cache, is_mock,
                                      TheValue(event.src_db_id),
                                      EventParallelHint(event))
               ELSE {[scan |-> FALSE, put |-> FALSE, wait_scan |-> FALSE, count |-> FALSE]} :
          LET out == handle_acquire(registry, limits_cache, is_mock, event, now, f)
          IN /\ registry' = out.registry
             /\ log' = out.log
             /\ last' = [action |-> "lambda_handler", event |-> event,
                         response |-> out.response]
    /\ UNCHANGED <<limits_cache, is_mock, now, pc, local>>

\* lambda_handler, the release branch
HandleRelease(event) ==
    /\ event.action = "release"
    /\ \E f \in IF HandlesRelease(event)
               THEN ReleaseFailures(registry, is_mock, TheValue(event.src_db_id),
                                    TheValue(event.dag_run_id))
               ELSE {[get |-> FALSE, put |-> FALSE, scan |-> FALSE]} :
          LET out == handle_release(registry, is_mock, event, now, f)
          IN /\ registry' = out.registry
             /\ log' = out.log
             /\ last' = [action |-> "lambda_handler", event |-> event,
                         response |-> out.response]
    /\ UNCHANGED <<limits_cache, is_mock, now, pc, local>>

\* lambda_handler, the else branch
HandleUnknown(event) ==
    /\ event.action \notin {"acquire", "release", "status"}
    /\ last' = [action |-> "lambda_handler", event |-> event,
                response |-> UnknownActionResponse(event.action)]
    /\ log' = {}
    /\ UNCHANGED <<registry, limits_cache, is_mock, now, pc, local>>

NextHandler ==
    \E event \in Events :
        \/ HandleAcquire(event)
        \/ HandleRelease(event)
        \/ HandleUnknown(event)

SpecHandler == Init /\ [][NextHandler]_vars

----------------------------------------------------------------------------
(* mwaa_integration.py: the orchestrator's side. A batch spec holds        *)
(* athenaMetaData.srcDbId, present or not, and rsrcSpecData.hint, a hint    *)
(* string. The Lambda invocation either fails (it raises: invocation error, *)
(* timeout) or answers with what lambda_handler returned.                   *)

\* _call_emr_agent: the payload
AgentPayload(action, spec, dag_id, dag_run_id) ==
    [action |-> action, dag_id |-> Some(dag_id), dag_run_id |-> Some(dag_run_id),
     src_db_id |-> spec.srcDbId,
     parallel_hint |-> IF action = "acquire"
                       THEN [kind |-> "str", int |-> 0, str |-> spec.hint]
                       ELSE [kind |-> "absent", int |-> 0, str |-> <<>>]]

\* _call_emr_agent: registry after the call, whether the invocation
\* answered, and the answer
call_emr_agent(reg, cache, mock, action, spec, dag_id, dag_run_id, t, invokeFails, fa, fr) ==
    LET event == AgentPayload(action, spec, dag_id, dag_run_id)
        out == IF action = "acquire"
               THEN handle_acquire(reg, cache, mock, event, t, fa)
               ELSE handle_release(reg, mock, event, t, fr)
    IN IF invokeFails
       THEN [registry |-> reg, log |-> {}, invoked |-> FALSE, response |-> None]
       ELSE [registry |-> out.registry, log |-> out.log, invoked |-> TRUE,
             response |-> Some(out.response)]

\* result.get('allowed')
ResponseAllowed(response) == "allowed" \in DOMAIN response /\ response.allowed

\* _acquire_connection, given what _call_emr_agent did: whether it raises,
\* and what it returns when it does not
acquire_connection(enabled, called) ==
    IF ~enabled
    THEN [raised |-> FALSE, returned |-> None]
    ELSE IF ~called.invoked
    THEN [raised |-> FALSE, returned |-> None]
    ELSE IF ResponseAllowed(TheValue(called.response))
    THEN [raised |-> FALSE, returned |-> called.response]
    ELSE [raised |-> TRUE, returned |-> None]

\* _release_connection
release_connection(enabled, called) ==
    IF ~enabled
    THEN [raised |-> FALSE, returned |-> None]
    ELSE IF ~called.invoked
    THEN [raised |-> FALSE, returned |-> None]
    ELSE [raised |-> FALSE, returned |-> called.response]

\* the batch specs of the orchestrator
BatchSpecs ==
    [srcDbId : {None, Some(ADW_SRC_DB_ID)},
     hint : {<<>>, build_parallel_hint(DEFAULT_MIN_PARALLEL, TRUE)}]

\* _acquire_connection(spec, dag_id, dag_run_id), EMR_AGENT_ENABLED as set
AcquireConnection(enabled, spec, dag_id, dag_run_id) ==
    LET event == AgentPayload("acquire", spec, dag_id, dag_run_id)
    IN \E invokeFails \in IF enabled THEN BOOLEAN ELSE {TRUE} :
       \E fa \in IF enabled /\ ~invokeFails /\ HandlesAdmission(event)
                THEN AdmissionFailures(registry, limits_cache, is_mock,
                                       TheValue(event.src_db_id),
                                       EventParallelHint(event))
                ELSE {[scan |-> FALSE, put |-> FALSE, wait_scan |-> FALSE, count |-> FALSE]} :
          LET called == call_emr_agent(registry, limits_cache, is_mock, "acquire",
                                       spec, dag_id, dag_run_id, now, invokeFails, fa,
                                       [get |-> FALSE, put |-> FALSE, scan |-> FALSE])
              out == acquire_connection(enabled, called)
          IN /\ registry' = IF enabled THEN called.registry ELSE registry
             /\ log' = IF enabled THEN called.log ELSE {}
             /\ last' = [action |-> "_acquire_connection", enabled |-> enabled,
                         event |-> event,
                         invoked |-> enabled /\ called.invoked,
                         response |-> IF enabled THEN called.response ELSE None,
                         raised |-> out.raised, returned |-> out.returned]
             /\ UNCHANGED <<limits_cache, is_mock, now, pc, local>>

\* _release_connection(spec, dag_id, dag_run_id)
ReleaseConnection(enabled, spec, dag_id, dag_run_id) ==
    LET event == AgentPayload("release", spec, dag_id, dag_run_id)
    IN \E invokeFails \in IF enabled THEN BOOLEAN ELSE {TRUE} :
       \E fr \in IF enabled /\ ~invokeFails /\ HandlesRelease(event)
                THEN ReleaseFailures(registry, is_mock, TheValue(event.src_db_id),
                                     TheValue(event.dag_run_id))
                ELSE {[get |-> FALSE, put |-> FALSE, scan |-> FALSE]} :
          LET called == call_emr_agent(registry, limits_cache, is_mock, "release",
                                       spec, dag_id, dag_run_id, now, invokeFails,
                                       [scan |-> FALSE, put |-> FALSE,
                                        wait_scan |-> FALSE, count |-> FALSE], fr)
              out == release_connection(enabled, called)
          IN /\ registry' = IF enabled THEN called.registry ELSE registry
             /\ log' = IF enabled THEN called.log ELSE {}
             /\ last' = [action |-> "_release_connection", enabled |-> enabled,
                         event |-> event,
                         invoked |-> enabled /\ called.invoked,
                         response |-> IF enabled THEN called.response ELSE None,
                         raised |-> out.raised, returned |-> out.returned]
             /\ UNCHANGED <<limits_cache, is_mock, now, pc, local>>

\* the release payload carries no hint
NextMwaa ==
    \E enabled \in BOOLEAN, dag_run_id \in Runs :
        \/ \E spec \in BatchSpecs :
              AcquireConnection(enabled, spec, "batch_001", dag_run_id)
        \/ \E spec \in {b \in BatchSpecs : b.hint = <<>>} :
              ReleaseConnection(enabled, spec, "batch_001", dag_run_id)

SpecMwaa == Init /\ [][NextMwaa]_vars

----------------------------------------------------------------------------
(* bdp_compact/services/pattern_recognizers.py: PatternChain. Adjustments   *)
(* are in hundredths: -0.40 is -40.                                         *)

Abs(x) == IF x < 0 THEN 0 - x ELSE x

Max(a, b) == IF a >= b THEN a ELSE b

\* os.getenv("BDP_PATTERN_MAX_ADJUSTMENT", "0.4")
GetenvMaxAdjustment(env) ==
    IF env.kind = "unset" THEN [kind |-> "number", value |-> ENV_MAX_ADJUSTMENT] ELSE env

\* PatternChain.__init__: the value max_adjustment gets
PatternChain_max_adjustment(max_adjustment, env) ==
    IF max_adjustment # None
    THEN TheValue(max_adjustment)
    ELSE IF GetenvMaxAdjustment(env).kind = "number"
    THEN 0 - Abs(GetenvMaxAdjustment(env).value)
    ELSE DEFAULT_MAX_ADJUSTMENT

\* recognize_all: the confidence_adjustment of each context the recognizers
\* return, in the chain's order; a recognizer that returns None or raises
\* adds none
RECURSIVE recognize_all(_)
recognize_all(outcomes) ==
    IF outcomes = <<>>
    THEN <<>>
    ELSE (IF Head(outcomes).kind = "context"
          THEN <<Head(outcomes).confidence_adjustment>>
          ELSE <<>>)
         \o recognize_all(Tail(outcomes))

RECURSIVE SumSeq(_)
SumSeq(seq) == IF seq = <<>> THEN 0 ELSE Head(seq) + SumSeq(Tail(seq))

\* get_total_adjustment
get_total_adjustment(outcomes, max_adjustment) ==
    Max(SumSeq(recognize_all(outcomes)), max_adjustment)

\* what one recognizer of the chain does on the data: DayOfWeekRecognizer and
\* TrendRecognizer return a context or None; any recognizer may raise
OutcomeChoices ==
    {[kind |-> "context", confidence_adjustment |-> WEEKDAY_ADJUSTMENT],
     [kind |-> "context", confidence_adjustment |-> TREND_ADJUSTMENT],
     [kind |-> "none", confidence_adjustment |-> 0],
     [kind |-> "raised", confidence_adjustment |-> 0]}

RECURSIVE OutcomeSeqs(_)
OutcomeSeqs(n) ==
    IF n = 0
    THEN {<<>>}
    ELSE OutcomeSeqs(n - 1)
         \cup {Append(b, x) : b \in {c \in OutcomeSeqs(n - 1) : Len(c) = n - 1},
                              x \in OutcomeChoices}

\* the max_adjustment argument and the environment variable
MaxAdjustmentChoices ==
    {None, Some(DEFAULT_MAX_ADJUSTMENT), Some(WEEKDAY_ADJUSTMENT),
     Some(ENV_MAX_ADJUSTMENT)}

EnvMaxAdjustmentChoices ==
    {[kind |-> "unset", value |-> 0],
     [kind |-> "number", value |-> Abs(WEEKDAY_ADJUSTMENT)],
     [kind |-> "number", value |-> TREND_ADJUSTMENT],
     [kind |-> "text", value |-> 0]}

\* PatternChain(recognizers, max_adjustment), recognizers being n of them
NewPatternChain(n, max_adjustment, env) ==
    /\ last' = [action |-> "PatternChain", recognizers |-> n,
                max_adjustment |-> PatternChain_max_adjustment(max_adjustment, env),
                recognized |-> <<>>, total |-> 0]
    /\ UNCHANGED <<registry, limits_cache, is_mock, now, log, pc, local>>

\* chain.get_total_adjustment(data), outcomes being what the chain's
\* recognizers do on data
GetTotalAdjustment(outcomes) ==
    /\ last.action \in {"PatternChain", "get_total_adjustment"}
    /\ Len(outcomes) = last.recognizers
    /\ last' = [action |-> "get_total_adjustment", recognizers |-> last.recognizers,
                max_adjustment |-> last.max_adjustment,
                recognized |-> recognize_all(outcomes),
                total |-> get_total_adjustment(outcomes, last.max_adjustment)]
    /\ UNCHANGED <<registry, limits_cache, is_mock, now, log, pc, local>>

NextChain ==
    \/ \E n \in 0..MaxRecognizers, m \in MaxAdjustmentChoices,
          env \in EnvMaxAdjustmentChoices :
          NewPatternChain(n, m, env)
    \/ \E outcomes \in OutcomeSeqs(MaxRecognizers) : GetTotalAdjustment(outcomes)

SpecChain == InitPure /\ [][NextChain]_vars

----------------------------------------------------------------------------
(* examples/services/cost_anomaly_detector.py                               *)
(*                                                                          *)
(* Costs are whole numbers of a currency unit, listed by date. A score, a   *)
(* weight or a confidence is a number of thousandths (1.0 is 1000), the     *)
(* digits round(x, 3) keeps; a float beyond them is cut off, and the tie of *)
(* round goes upward.                                                       *)

Milli == 10 * 10 * 10

\* AnomalyThresholds()
DefaultThresholds ==
    [ratio_threshold |-> RATIO_THRESHOLD,
     ratio_decrease_threshold |-> RATIO_DECREASE_THRESHOLD,
     stddev_multiplier |-> STDDEV_MULTIPLIER,
     trend_consecutive_days |-> TREND_CONSECUTIVE_DAYS,
     trend_min_increase_rate |-> TREND_MIN_INCREASE_RATE,
     ratio_weight |-> RATIO_WEIGHT,
     stddev_weight |-> STDDEV_WEIGHT,
     trend_weight |-> TREND_WEIGHT,
     severity_high_threshold |-> SEVERITY_HIGH_THRESHOLD,
     severity_medium_threshold |-> SEVERITY_MEDIUM_THRESHOLD,
     min_data_points |-> MIN_DATA_POINTS]

DetectionResult(detected, score, anomaly_type) ==
    [detected |-> detected, score |-> score, anomaly_type |-> anomaly_type]

\* floor(10^k * a / d) for 0 <= a < d, by long division
RECURSIVE ScaledDiv(_, _, _)
ScaledDiv(a, d, k) ==
    IF k = 0
    THEN 0
    ELSE ((10 * a) \div d) * 10^(k - 1) + ScaledDiv((10 * a) % d, d, k - 1)

\* floor(sqrt(x)) for 0 <= x < Milli * Milli
Isqrt(x) == CHOOSE k \in 0..Milli : k * k <= x /\ x < (k + 1) * (k + 1)

\* costs[target_idx - 1] if target_idx > 0 else costs[0]; target is the
\* place of the target date counted from 1
PreviousCost(costs, target) == IF target > 1 THEN costs[target - 1] ELSE costs[1]

\* _detect_ratio_anomaly
detect_ratio_anomaly(costs, target, thresholds) ==
    LET current == costs[target]
        previous == PreviousCost(costs, target)
        change == current - previous
    IN IF previous <= 0
       THEN DetectionResult(current > 0,
                            IF current > 0 THEN PREVIOUS_ZERO_SCORE ELSE 0, "ratio")
       ELSE IF Milli * change >= thresholds.ratio_threshold * previous
       THEN DetectionResult(TRUE,
                Min(Milli, (Milli * Milli * change)
                               \div (2 * thresholds.ratio_threshold * previous)),
                "ratio")
       ELSE IF Milli * change <= 0 - thresholds.ratio_decrease_threshold * previous
       THEN DetectionResult(TRUE,
                Min(Milli, (Milli * Milli * (0 - change))
                               \div (2 * thresholds.ratio_decrease_threshold * previous)),
                "ratio")
       ELSE DetectionResult(FALSE, 0, "ratio")

RECURSIVE SumSquares(_)
SumSquares(seq) ==
    IF seq = <<>> THEN 0 ELSE Head(seq) * Head(seq) + SumSquares(Tail(seq))

\* _detect_stddev_anomaly. With n historical costs of sum S and sum of
\* squares Q, z_score^2 = (n*current - S)^2 * (n-1) / (n * (n*Q - S^2))
detect_stddev_anomaly(costs, target, thresholds) ==
    LET historical_costs == IF target > 1
                            THEN SubSeq(costs, 1, target - 1)
                            ELSE SubSeq(costs, 1, Len(costs) - 1)
        n == Len(historical_costs)
        S == SumSeq(historical_costs)
        Q == SumSquares(historical_costs)
        current == costs[target]
        zNum == (n * current - S) * (n * current - S) * (n - 1)
        zDen == n * (n * Q - S * S)
        threshold == thresholds.stddev_multiplier
        capDen == 4 * threshold * threshold * zDen
    IN IF n < MIN_HISTORICAL_POINTS
       THEN DetectionResult(FALSE, 0, "stddev")
       ELSE IF zDen = 0
       THEN DetectionResult(FALSE, 0, "stddev")
       ELSE IF zNum >= threshold * threshold * zDen
       THEN DetectionResult(TRUE,
                IF zNum >= capDen THEN Milli ELSE Isqrt(ScaledDiv(zNum, capDen, 6)),
                "stddev")
       ELSE DetectionResult(FALSE, 0, "stddev")

\* the loop of _detect_trend_anomaly from place i downward: the rates of
\* the consecutive increases, the latest day first. Each rate is the pair
\* <<current - previous, previous>>
RECURSIVE IncreaseRates(_, _, _, _)
IncreaseRates(costs, i, stop, thresholds) ==
    IF i <= stop \/ i = 1
    THEN <<>>
    ELSE LET current == costs[i]
             previous == costs[i - 1]
         IN IF previous > 0
               /\ Milli * (current - previous)
                     >= thresholds.trend_min_increase_rate * previous
            THEN <<<<current - previous, previous>>>>
                 \o IncreaseRates(costs, i - 1, stop, thresholds)
            ELSE <<>>

\* sum(increase_rates) as the fraction <<numerator, denominator>>
RECURSIVE SumRates(_)
SumRates(rates) ==
    IF rates = <<>>
    THEN <<0, 1>>
    ELSE LET rest == SumRates(Tail(rates))
         IN <<Head(rates)[1] * rest[2] + rest[1] * Head(rates)[2],
              Head(rates)[2] * rest[2]>>

\* _detect_trend_anomaly
detect_trend_anomaly(costs, target, thresholds) ==
    LET required_days == thresholds.trend_consecutive_days
        min_rate == thresholds.trend_min_increase_rate
        increase_rates == IncreaseRates(costs, target,
                                        Max(1, target - required_days), thresholds)
        consecutive_increases == Len(increase_rates)
        total == SumRates(increase_rates)
        \* avg_rate / (min_rate * 3) = total / (len * 3 * min_rate / Milli)
        factorDen == consecutive_increases * 3 * min_rate * total[2]
        days_factor == Min(Milli, (Milli * consecutive_increases)
                                      \div (required_days * 2))
        rate_factor == IF Milli * total[1] >= factorDen
                       THEN Milli
                       ELSE ScaledDiv(Milli * total[1], factorDen, 3)
    IN IF target - 1 < required_days
       THEN DetectionResult(FALSE, 0, "trend")
       ELSE IF consecutive_increases >= required_days
       THEN DetectionResult(TRUE, (days_factor + rate_factor) \div 2, "trend")
       ELSE DetectionResult(FALSE, 0, "trend")

\* round(x, 3) of x given in millionths
Round3(x) == (x + Milli \div 2) \div Milli

\* _calculate_combined_score with no clamp to [0, 1]
calculate_combined_score_unclamped(ratio_score, stddev_score, trend_score, thresholds) ==
    Round3(ratio_score * thresholds.ratio_weight
           + stddev_score * thresholds.stddev_weight
           + trend_score * thresholds.trend_weight)

\* _calculate_combined_score with every weight 1
calculate_combined_score_unweighted(ratio_score, stddev_score, trend_score, thresholds) ==
    Round3(Min(Milli * Milli,
               Max(0, Milli * (ratio_score + stddev_score + trend_score))))

\* _calculate_combined_score
calculate_combined_score(ratio_score, stddev_score, trend_score, thresholds) ==
    LET score == ratio_score * thresholds.ratio_weight
                 + stddev_score * thresholds.stddev_weight
                 + trend_score * thresholds.trend_weight
    IN Round3(Min(Milli * Milli, Max(0, score)))

\* _determine_severity
determine_severity(score, thresholds) ==
    IF score >= thresholds.severity_high_threshold
    THEN "high"
    ELSE IF score >= thresholds.severity_medium_threshold
    THEN "medium"
    ELSE "low"

\* detect_anomaly: None for too few costs, else the AnomalyResult (the
\* fields computed from the scores; the texts are left out). target_date is
\* None, or the place of a date of the series; a date that is not in the
\* series is treated as None by the code
detect_anomaly(costs, target_date, thresholds) ==
    LET target == IF target_date = None THEN Len(costs) ELSE TheValue(target_date)
        ratio_result == detect_ratio_anomaly(costs, target, thresholds)
        stddev_result == detect_stddev_anomaly(costs, target, thresholds)
        trend_result == detect_trend_anomaly(costs, target, thresholds)
        detection_results == <<ratio_result, stddev_result, trend_result>>
        combined_score == calculate_combined_score(ratio_result.score,
                                                   stddev_result.score,
                                                   trend_result.score, thresholds)
        detected_methods == {i \in 1..3 : detection_results[i].detected}
    IN IF Len(costs) < thresholds.min_data_points
       THEN None
       ELSE Some([is_anomaly |-> Cardinality(detected_methods) >= 2
                                    \/ combined_score > ANOMALY_CONFIDENCE,
                  confidence_score |-> combined_score,
                  severity |-> determine_severity(combined_score, thresholds),
                  current_cost |-> costs[target],
                  previous_cost |-> PreviousCost(costs, target),
                  detection_results |-> detection_results])

\* the thresholds a detector is made with: the defaults, or every weight 1
ThresholdsChoices ==
    {DefaultThresholds,
     [DefaultThresholds EXCEPT !.ratio_weight = Milli, !.stddev_weight = Milli,
                               !.trend_weight = Milli]}

\* daily costs: a steady alternation, then the days of the trend window
SteadyCosts == <<28, 20, 28, 20>>
CostChoices == {0, 20, 22, 25, 28, 40, 60}

CostSeries ==
    {SteadyCosts}
    \cup {SteadyCosts \o <<a, b, c>> : a \in CostChoices, b \in CostChoices,
                                       c \in CostChoices}

\* CostAnomalyDetector(thresholds)
NewCostAnomalyDetector(thresholds) ==
    /\ last.action = "none"
    /\ last' = [action |-> "CostAnomalyDetector", thresholds |-> thresholds,
                costs |-> <<>>, target_date |-> None, result |-> None]
    /\ UNCHANGED <<registry, limits_cache, is_mock, now, log, pc, local>>

\* detector.detect_anomaly(service_name, costs_by_date, target_date)
DetectAnomaly(costs, target_date) ==
    /\ last.action \in {"CostAnomalyDetector", "detect_anomaly"}
    /\ last' = [action |-> "detect_anomaly", thresholds |-> last.thresholds,
                costs |-> costs, target_date |-> target_date,
                result |-> detect_anomaly(costs, target_date, last.thresholds)]
    /\ UNCHANGED <<registry, limits_cache, is_mock, now, log, pc, local>>

NextDetect ==
    \/ \E thresholds \in ThresholdsChoices : NewCostAnomalyDetector(thresholds)
    \/ \E costs \in CostSeries, target_date \in {None, Some(1)} :
          DetectAnomaly(costs, target_date)

SpecDetect == InitPure /\ [][NextDetect]_vars

----------------------------------------------------------------------------
(* infra/hdsp_agent/helpers/metric_injector.py                              *)
(*                                                                          *)
(* `last` holds the injector: its tracking list, the HTTP requests the last *)
(* call sent to the Pushgateway, each with the status it was answered with  *)
(* (None when the request raised), and what clear_metrics returned. Of an   *)
(* InjectedMetric the metric name, the job and the grouping key are kept; a *)
(* grouping key is the list of its (label, value) pairs.                    *)

\* the status codes _delete_metrics takes for a success
HTTP_OK == 200
HTTP_ACCEPTED == 202

InjectedMetric(metric_name, job, grouping_key) ==
    [metric_name |-> metric_name, job |-> job, grouping_key |-> grouping_key]

\* the URL a job and a grouping key are addressed by
MetricsUrl(job, grouping_key) == <<"metrics", "job", job>> \o grouping_key

Request(method, job, grouping_key, status) ==
    [method |-> method, url |-> MetricsUrl(job, grouping_key), status |-> status]

\* response.raise_for_status() passes
StatusPasses(status) == status # None /\ TheValue(status) < 400

\* _push_metrics: the POST and whether it succeeded
push_metrics(job, grouping_key, status) ==
    [request |-> Request("POST", job, grouping_key, status),
     returned |-> StatusPasses(status)]

\* _delete_metrics: the DELETE and whether it succeeded
delete_metrics_only_ok(job, grouping_key, status) ==
    [request |-> Request("DELETE", job, grouping_key, status),
     returned |-> status = Some(HTTP_OK)]

delete_metrics(job, grouping_key, status) ==
    [request |-> Request("DELETE", job, grouping_key, status),
     returned |-> status \in {Some(HTTP_OK), Some(HTTP_ACCEPTED)}]

\* the loop of clear_metrics over the tracking list: the requests sent and
\* the number cleared
RECURSIVE ClearLoop(_, _)
ClearLoop(injected_metrics, statuses) ==
    IF injected_metrics = <<>> THEN [requests |-> <<>>, cleared |-> 0]
    ELSE LET metric == Head(injected_metrics)
             deleted == delete_metrics(metric.job, metric.grouping_key,
                                       Head(statuses))
             rest == ClearLoop(Tail(injected_metrics), Tail(statuses))
         IN  [requests |-> <<deleted.request>> \o rest.requests,
              cleared |-> IF deleted.returned THEN rest.cleared + 1
                          ELSE rest.cleared]

\* an inject_<scenario> whose tracking entry is dropped when the push failed
inject_only_pushed(injected_metrics, metric_name, job, grouping_key, status) ==
    LET pushed == push_metrics(job, grouping_key, status)
    IN  [injected_metrics |->
            IF pushed.returned
            THEN Append(injected_metrics,
                        InjectedMetric(metric_name, job, grouping_key))
            ELSE injected_metrics,
         requests |-> <<pushed.request>>]

\* what the six inject_<scenario> functions share: push, then track
inject(injected_metrics, metric_name, job, grouping_key, status) ==
    LET pushed == push_metrics(job, grouping_key, status)
    IN  [injected_metrics |->
            Append(injected_metrics,
                   InjectedMetric(metric_name, job, grouping_key)),
         requests |-> <<pushed.request>>]

PodGroupingKey(namespace, pod) == <<<<"namespace", namespace>>, <<"pod", pod>>>>
NodeGroupingKey(node) == <<<<"node", node>>>>

Namespaces == {"default"}
Pods == {"pod-a", "pod-b"}
Nodes == {"node-1"}
\* what the Pushgateway may answer: a status, or nothing (the request raises)
PushStatuses == {Some(HTTP_OK), Some(500), None}
DeleteStatuses == {Some(HTTP_OK), Some(HTTP_ACCEPTED), Some(404), None}

RECURSIVE SeqsOfLen(_, _)
SeqsOfLen(S, n) ==
    IF n = 0 THEN {<<>>}
    ELSE {<<x>> \o s : x \in S, s \in SeqsOfLen(S, n - 1)}

InjectorActions ==
    {"MetricInjector", "inject_crash_loop", "inject_oom_killed",
     "inject_node_pressure", "inject_high_cpu", "inject_high_memory",
     "inject_pod_restarts", "clear_metrics"}

\* MetricInjector()
NewMetricInjector ==
    /\ last.action = "none"
    /\ last' = [action |-> "MetricInjector", injected_metrics |-> <<>>,
                requests |-> <<>>, cleared |-> 0]
    /\ UNCHANGED <<registry, limits_cache, is_mock, now, log, pc, local>>

Inject(action, metric_name, job, grouping_key, status) ==
    /\ last.action \in InjectorActions
    /\ Len(last.injected_metrics) < MaxInjected
    /\ LET injected == inject(last.injected_metrics, metric_name, job,
                              grouping_key, status)
       IN  last' = [action |-> action,
                    injected_metrics |-> injected.injected_metrics,
                    requests |-> injected.requests,
                    cleared |-> last.cleared]
    /\ UNCHANGED <<registry, limits_cache, is_mock, now, log, pc, local>>

InjectCrashLoop(namespace, pod, status) ==
    Inject("inject_crash_loop", "kube_pod_container_status_waiting_reason",
           "kube-state-metrics", PodGroupingKey(namespace, pod), status)

InjectOomKilled(namespace, pod, status) ==
    Inject("inject_oom_killed", "kube_pod_container_status_last_terminated_reason",
           "kube-state-metrics", PodGroupingKey(namespace, pod), status)

InjectNodePressure(node, status) ==
    Inject("inject_node_pressure", "kube_node_status_condition",
           "kube-state-metrics", NodeGroupingKey(node), status)

InjectHighCpu(namespace, pod, status) ==
    Inject("inject_high_cpu", "container_cpu_usage_seconds_total",
           "cadvisor", PodGroupingKey(namespace, pod), status)

InjectHighMemory(namespace, pod, status) ==
    Inject("inject_high_memory", "container_memory_working_set_bytes",
           "cadvisor", PodGroupingKey(namespace, pod), status)

InjectPodRestarts(namespace, pod, status) ==
    Inject("inject_pod_restarts", "kube_pod_container_status_restarts_total",
           "kube-state-metrics", PodGroupingKey(namespace, pod), status)

\* clear_metrics(), the i-th DELETE answered with statuses[i]
ClearMetrics(statuses) ==
    /\ last.action \in InjectorActions
    /\ Len(statuses) = Len(last.injected_metrics)
    /\ LET loop == ClearLoop(last.injected_metrics, statuses)
       IN  last' = [action |-> "clear_metrics",
                    injected_metrics |-> <<>>,
                    requests |-> loop.requests,
                    cleared |-> loop.cleared]
    /\ UNCHANGED <<registry, limits_cache, is_mock, now, log, pc, local>>

NextInjector ==
    \/ NewMetricInjector
    \/ \E ns \in Namespaces, pod \in Pods, status \in PushStatuses :
          InjectCrashLoop(ns, pod, status)
    \/ \E ns \in Namespaces, pod \in Pods, status \in PushStatuses :
          InjectOomKilled(ns, pod, status)
    \/ \E node \in Nodes, status \in PushStatuses :
          InjectNodePressure(node, status)
    \/ \E ns \in Namespaces, pod \in Pods, status \in PushStatuses :
          InjectHighCpu(ns, pod, status)
    \/ \E ns \in Namespaces, pod \in Pods, status \in PushStatuses :
          InjectHighMemory(ns, pod, status)
    \/ \E ns \in Namespaces, pod \in Pods, status \in PushStatuses :
          InjectPodRestarts(ns, pod, status)
    \/ \E n \in 0..MaxInjected :
          \E statuses \in SeqsOfLen(DeleteStatuses, n) : ClearMetrics(statuses)

SpecInjector == InitPure /\ [][NextInjector]_vars

----------------------------------------------------------------------------
(* common/services/kakao_notifier.py                                        *)
(*                                                                          *)
(* `last` holds the notifier (its tokens, and whether it has a client id)   *)
(* and the _send_message call in progress: where it is, how deep its        *)
(* recursion is, how many times it posted the message and how many times    *)
(* it replaced the access token. Each HTTP request is a step, answered as   *)
(* the Kakao servers choose.                                                *)

\* the code of the send API for an expired access token
TOKEN_EXPIRED_CODE == -401

AccessTokens == {"access_0", "access_1"}
RefreshTokens == {"refresh_0", "refresh_1"}
\* the templates of two messages, as send_text builds them
Templates == {"message_1", "message_2"}

\* what the send API answers, as response.json() gives it; None when the
\* request or the decoding raises
SendAnswers ==
    {Some([result_code |-> 0, code |-> 0]),
     Some([result_code |-> TOKEN_EXPIRED_CODE, code |-> TOKEN_EXPIRED_CODE]),
     Some([result_code |-> 1, code |-> 1]),
     None}

\* what the token API answers: the tokens in the result; None when the
\* request raises
TokenAnswers ==
    {Some([access_token |-> a, refresh_token |-> r]) :
        a \in {None} \cup {Some(t) : t \in AccessTokens},
        r \in {None} \cup {Some(t) : t \in RefreshTokens}}
    \cup {None}

\* _refresh_access_token(), the token API answering `answer` when asked:
\* the tokens after it and what it returns
refresh_access_token(access_token, refresh_token, client_id, answer) ==
    IF refresh_token = None \/ ~client_id
    THEN [access_token |-> access_token, refresh_token |-> refresh_token,
          returned |-> FALSE]
    ELSE IF answer = None
    THEN [access_token |-> access_token, refresh_token |-> refresh_token,
          returned |-> FALSE]
    ELSE IF TheValue(answer).access_token # None
    THEN [access_token |-> TheValue(TheValue(answer).access_token),
          refresh_token |-> IF TheValue(answer).refresh_token # None
                            THEN TheValue(answer).refresh_token
                            ELSE refresh_token,
          returned |-> TRUE]
    ELSE [access_token |-> access_token, refresh_token |-> refresh_token,
          returned |-> FALSE]

\* KakaoNotifier(access_token, refresh_token, client_id)
NewKakaoNotifier(access_token, refresh_token, client_id) ==
    /\ last.action = "none"
    /\ last' = [action |-> "KakaoNotifier", at |-> "idle",
                access_token |-> access_token,
                refresh_token |-> refresh_token,
                client_id |-> client_id,
                template |-> "", depth |-> 0, posts |-> 0, refreshes |-> 0,
                returned |-> FALSE]
    /\ UNCHANGED <<registry, limits_cache, is_mock, now, log, pc, local>>

\* a caller enters _send_message(template)
SendMessage(template) ==
    /\ last.action \in {"KakaoNotifier", "_send_message"}
    /\ last.at \in {"idle", "returned"}
    /\ last' = [last EXCEPT !.action = "_send_message", !.at = "post",
                            !.template = template, !.depth = 1, !.posts = 0, !.refreshes = 0,
                            !.returned = FALSE]
    /\ UNCHANGED <<registry, limits_cache, is_mock, now, log, pc, local>>

\* client.post(SEND_URL, ...) and the branch on its result
Post(answer) ==
    /\ last.action = "_send_message"
    /\ last.at = "post"
    /\ last' = IF answer = None
               THEN [last EXCEPT !.posts = @ + 1, !.at = "returned",
                                 !.returned = FALSE]
               ELSE IF TheValue(answer).result_code = 0
               THEN [last EXCEPT !.posts = @ + 1, !.at = "returned",
                                 !.returned = TRUE]
               ELSE IF TheValue(answer).code = TOKEN_EXPIRED_CODE
               THEN [last EXCEPT !.posts = @ + 1, !.at = "refresh"]
               ELSE [last EXCEPT !.posts = @ + 1, !.at = "returned",
                                 !.returned = FALSE]
    /\ UNCHANGED <<registry, limits_cache, is_mock, now, log, pc, local>>

\* the token-expired branch: self._refresh_access_token(), and on success
\* return self._send_message(template). A call deeper than the interpreter
\* allows raises RecursionError, an Exception, which the try of the frame
\* that made it turns into False.
Refresh(answer) ==
    /\ last.action = "_send_message"
    /\ last.at = "refresh"
    /\ LET refreshed == refresh_access_token(last.access_token,
                            last.refresh_token, last.client_id, answer)
       IN  last' = IF ~refreshed.returned
                   THEN [last EXCEPT !.at = "returned", !.returned = FALSE]
                   ELSE IF last.depth < MaxDepth
                   THEN [last EXCEPT !.access_token = refreshed.access_token,
                                     !.refresh_token = refreshed.refresh_token,
                                     !.refreshes = @ + 1,
                                     !.depth = @ + 1, !.at = "post"]
                   ELSE [last EXCEPT !.access_token = refreshed.access_token,
                                     !.refresh_token = refreshed.refresh_token,
                                     !.refreshes = @ + 1,
                                     !.at = "returned", !.returned = FALSE]
    /\ UNCHANGED <<registry, limits_cache, is_mock, now, log, pc, local>>

NextKakao ==
    \/ \E a \in AccessTokens, r \in {None} \cup {Some(t) : t \in RefreshTokens},
          c \in BOOLEAN :
          NewKakaoNotifier(a, r, c)
    \/ \E template \in Templates : SendMessage(template)
    \/ \E answer \in SendAnswers : Post(answer)
    \/ \E answer \in TokenAnswers : Refresh(answer)

\* a request is answered or raises (httpx times out)
SpecKakao ==
    /\ InitPure
    /\ [][NextKakao]_vars
    /\ WF_vars(\E answer \in SendAnswers : Post(answer))
    /\ WF_vars(\E answer \in TokenAnswers : Refresh(answer))

----------------------------------------------------------------------------
(* Concurrent callers: several instances of the handler share the registry  *)
(* table, and each store call of a call is a step of its own. The store     *)
(* calls succeed here; failing ones are part of Spec.                       *)

NoFailures ==
    [scan |-> FALSE, put |-> FALSE, wait_scan |-> FALSE, count |-> FALSE]

\* check_admission up to the reads of limits and current_usage
AdmissionRead(c, s, r, p) ==
    /\ pc[c] = "idle"
    /\ pc' = [pc EXCEPT ![c] = "admit"]
    /\ local' = [local EXCEPT ![c] =
                    [src_db_id |-> s, dag_run_id |-> r, parallel_hint |-> p,
                     current_usage |-> get_current_usage(registry, s, FALSE),
                     item |-> None]]
    /\ UNCHANGED <<registry, limits_cache, is_mock, now, last, log>>

\* check_admission from the decision on: the write (or, with no capacity,
\* the reads of the wait estimate) and the return
AdmissionCommit(c) ==
    /\ pc[c] = "admit"
    /\ LET l == local[c]
           out == Decide(registry, is_mock, get_limits(limits_cache, l.src_db_id),
                         l.current_usage, l.src_db_id, l.dag_run_id,
                         l.parallel_hint, now, NoFailures)
       IN /\ registry' = out.registry
          /\ last' = Call("acquire", l.src_db_id, l.dag_run_id, l.parallel_hint,
                          FALSE, out.result)
          /\ log' = out.log
    /\ pc' = [pc EXCEPT ![c] = "idle"]
    /\ local' = [local EXCEPT ![c] = NoLocal]
    /\ UNCHANGED <<limits_cache, is_mock, now>>

\* release up to the read of the item; a missing item ends the call
ReleaseRead(c, s, r) ==
    /\ pc[c] = "idle"
    /\ IF GetItem(registry, s, r) = None
       THEN /\ last' = Call("release", s, r, 0, FALSE,
                            ReleaseResult(FALSE, 0, 0, Some("Batch not found")))
            /\ log' = {}
            /\ UNCHANGED <<pc, local>>
       ELSE /\ pc' = [pc EXCEPT ![c] = "release"]
            /\ local' = [local EXCEPT ![c] =
                            [src_db_id |-> s, dag_run_id |-> r, parallel_hint |-> 0,
                             current_usage |-> 0, item |-> GetItem(registry, s, r)]]
            /\ UNCHANGED <<last, log>>
    /\ UNCHANGED <<registry, limits_cache, is_mock, now>>

\* release from the write of the COMPLETED item on
ReleaseWrite(c) ==
    /\ pc[c] = "release"
    /\ LET l == local[c]
           registration == CompletedFromItem(TheValue(l.item), now)
           written == Put(registry, to_dynamodb_item(registration))
       IN /\ registry' = written
          /\ last' = Call("release", l.src_db_id, l.dag_run_id, 0, FALSE,
                          ReleaseResult(TRUE, registration.parallel_hint,
                                        get_current_usage(written, l.src_db_id, FALSE),
                                        None))
          /\ log' = {}
    /\ pc' = [pc EXCEPT ![c] = "idle"]
    /\ local' = [local EXCEPT ![c] = NoLocal]
    /\ UNCHANGED <<limits_cache, is_mock, now>>

InitConc == Init /\ ~is_mock

NextConc ==
    \E c \in Callers :
        \/ \E r \in Runs, p \in 1..MaxParallel : AdmissionRead(c, ADW_SRC_DB_ID, r, p)
        \/ AdmissionCommit(c)
        \/ \E r \in Runs : ReleaseRead(c, ADW_SRC_DB_ID, r)
        \/ ReleaseWrite(c)

SpecConc == InitConc /\ [][NextConc]_vars

----------------------------------------------------------------------------
(* What the claims speak of *)

\* the source's usage as the registry holds it
CurrentUsage(s) == get_current_usage(registry, s, FALSE)

Threshold(s) == threshold_connections(get_limits(limits_cache, s))

MinParallel(s) == get_limits(limits_cache, s).min_parallel

LastKey == <<last.src_db_id, last.dag_run_id>>

\* the last call was a check_admission that returned a result
Acquired == last.action = "acquire" /\ ~last.raised

Admitted == Acquired /\ last.result.allowed

Denied == Acquired /\ ~last.result.allowed

\* the last call was a release that returned released=true
Released == last.action = "release" /\ ~last.raised /\ last.result.released

\* usage counting only the registrations whose ttl has not passed
UnexpiredUsage(s) ==
    SumHints(registry, {k \in get_running_batches(registry, s, FALSE) :
                            registry[k].ttl >= now})

----------------------------------------------------------------------------
(* Claims *)

\* C1: for any interleaving of concurrent check_admission calls on one
\* source, after every committed admission the sum of parallel_hint over the
\* source's RUNNING registrations is at most the threshold.
C1_ConcurrentAdmissionsKeepThreshold ==
    \A s \in Sources :
        (Admitted /\ last.src_db_id = s /\ LastKey \in DOMAIN registry)
            => CurrentUsage(s) <= Threshold(s)

\* C2: after any sequence of check_admission and release calls made one
\* after the other, right after every successful admission the sum of
\* parallel_hint over the source's RUNNING registrations is at most
\* floor(max_connections * threshold_percent / 100).
C2_SequentialAdmissionsKeepThreshold ==
    Admitted =>
        SumHints(registry, get_running_batches(registry, last.src_db_id, FALSE))
            <= (get_limits(limits_cache, last.src_db_id).max_connections
                * get_limits(limits_cache, last.src_db_id).threshold_percent) \div 100

\* C3: every result of check_admission with downgraded=true has
\* parallel < original_parallel and parallel >= min_parallel.
C3_DowngradeWithinBounds ==
    (Acquired /\ last.result.downgraded) =>
        /\ last.result.original_parallel # None
        /\ last.result.parallel < TheValue(last.result.original_parallel)
        /\ last.result.parallel >= MinParallel(last.src_db_id)

C3_Witness ==
    /\ Acquired
    /\ last.result.downgraded
    /\ last.result.parallel = MinParallel(last.src_db_id)
    /\ CurrentUsage(last.src_db_id) > last.result.parallel

\* C4: whenever check_admission returns allowed=true, a RUNNING registration
\* of that key with parallel_hint equal to the returned parallel is in the
\* store, and a failing store write is an error to the caller.
C4_AdmissionIsCommitted ==
    /\ Admitted =>
          /\ LastKey \in DOMAIN registry
          /\ registry[LastKey].status = "RUNNING"
          /\ registry[LastKey].parallel_hint = last.result.parallel
    /\ (last.action = "acquire" /\ "Failed to register batch" \in log)
          => last.raised

\* C5: when the scan of the source's running registrations fails during
\* check_admission, the call fails: it is not answered from a usage of 0.
C5_ScanFailurePropagates ==
    (last.action = "acquire" /\ "Failed to get running batches" \in log)
        => last.raised

\* C6: a RUNNING registration whose ttl is earlier than now is treated as
\* released: the usage a check_admission decides on does not count it, and
\* a denial is owed to the unexpired registrations alone.
C6_ExpiredNotCounted ==
    [][(/\ last'.action = "acquire"
        /\ ~last'.raised
        /\ ~last'.result.allowed
        /\ log' = {}
        /\ now' = now)
       => /\ last'.result.current_usage = UnexpiredUsage(last'.src_db_id)
          /\ UnexpiredUsage(last'.src_db_id) + MinParallel(last'.src_db_id)
                > Threshold(last'.src_db_id)]_vars

\* C7: release is idempotent: a release that follows a release of the same
\* key returns released_connections as the first did and leaves the
\* source's usage as it was.
C7_ReleaseIdempotent ==
    [][(/\ Released
        /\ last'.action = "release"
        /\ ~last'.raised
        /\ last'.src_db_id = last.src_db_id
        /\ last'.dag_run_id = last.dag_run_id)
       => /\ last'.result.released
          /\ last'.result.released_connections = last.result.released_connections
          /\ get_current_usage(registry', last.src_db_id, FALSE)
                = CurrentUsage(last.src_db_id)]_vars

C7_Witness ==
    /\ Released
    /\ last.result.released_connections > 0
    /\ registry[LastKey].status = "COMPLETED"
    /\ \E k \in DOMAIN registry : registry[k].status = "RUNNING"

\* C8: a registration committed by check_admission has original_parallel
\* set if and only if its parallel_hint is less than the requested parallel.
C8_OriginalParallelIffDowngraded ==
    (Admitted /\ "Failed to register batch" \notin log) =>
        /\ LastKey \in DOMAIN registry
        /\ is_downgraded(registry[LastKey])
              <=> registry[LastKey].parallel_hint < last.parallel_hint

C8_Witness ==
    /\ Admitted
    /\ "Failed to register batch" \notin log
    /\ is_downgraded(registry[LastKey])
    /\ registry[LastKey].parallel_hint < last.parallel_hint

\* C9: a check_admission whose requested parallel is below the source's
\* min_parallel is rejected as a validation error and registers nothing.
C9_BelowMinimumRejected ==
    (last.action = "acquire" /\ last.parallel_hint < MinParallel(last.src_db_id))
        => \/ last.raised
           \/ /\ ~last.result.allowed
              /\ last.result.reason # "connection_limit_exceeded"

\* C10: a check_admission that returns allowed=false leaves the registry as
\* it was: no registration is added (no WAITING record) and none is changed.
C10_DenialLeavesRegistry ==
    [][(last'.action = "acquire" /\ ~last'.raised /\ ~last'.result.allowed)
       => registry' = registry]_vars

C10_Witness ==
    /\ Denied
    /\ last.result.reason = "connection_limit_exceeded"
    /\ LastKey \notin DOMAIN registry
    /\ CurrentUsage(last.src_db_id) > 0

\* the registrations of one source, as the registry holds them
RegistrationsOf(reg, s) == [k \in {x \in DOMAIN reg : x[1] = s} |-> reg[k]]

\* the key the step's call is about
NextKey == <<last'.src_db_id, last'.dag_run_id>>

\* C11: a release of a key that has no registration returns released=false
\* with an error, leaves every registration and every source's usage as
\* they were, and raises nothing: the call ends by an exception only when
\* the store's read itself fails, which the in-memory store never does.
C11_ReleaseNotFound ==
    [][(last'.action = "release" /\ NextKey \notin DOMAIN registry)
       => /\ registry' = registry
          /\ \A s \in Sources :
                get_current_usage(registry', s, FALSE) = CurrentUsage(s)
          /\ last'.raised => ~is_mock
          /\ ~last'.raised =>
                /\ ~last'.result.released
                /\ last'.result.released_connections = 0
                /\ last'.result.error # None]_vars

C11_Witness ==
    /\ last.action = "release"
    /\ ~last.raised
    /\ ~last.result.released
    /\ last.result.error # None
    /\ LastKey \notin DOMAIN registry
    /\ CurrentUsage(last.src_db_id) > 0

\* C12: registry operations on one key are linearizable: when a release
\* writes the item back as COMPLETED, what it stores is the COMPLETED form
\* of the registration stored at that moment, so that no registration
\* committed between the release's read and its write is lost.
C12_ReleaseLinearizable ==
    [][\A c \in Callers :
          (pc[c] = "release" /\ pc'[c] = "idle") =>
              LET key == <<local[c].src_db_id, local[c].dag_run_id>>
              IN /\ key \in DOMAIN registry'
                 /\ registry'[key] = [registry[key] EXCEPT !.status = "COMPLETED"]]_vars

\* C13: when check_admission returns allowed=true (and no store call of it
\* failed), current_usage in the result is the source's usage in the
\* registry after the commit, and available is the threshold minus it.
C13_ResultUsageIsActual ==
    (Admitted /\ log = {}) =>
        /\ last.result.current_usage = CurrentUsage(last.src_db_id)
        /\ last.result.available
              = Threshold(last.src_db_id) - CurrentUsage(last.src_db_id)

\* C14: a release of a RUNNING registration marks it COMPLETED, returns its
\* parallel_hint as released_connections, lowers the source's usage by
\* exactly that, and leaves every other registration as it was.
C14_ReleaseFrame ==
    [][(/\ last'.action = "release"
        /\ ~last'.raised
        /\ NextKey \in DOMAIN registry
        /\ registry[NextKey].status = "RUNNING")
       => /\ DOMAIN registry' = DOMAIN registry
          /\ registry'[NextKey].status = "COMPLETED"
          /\ last'.result.released
          /\ last'.result.released_connections = registry[NextKey].parallel_hint
          /\ get_current_usage(registry', last'.src_db_id, FALSE)
                = CurrentUsage(last'.src_db_id) - registry[NextKey].parallel_hint
          /\ \A k \in DOMAIN registry \ {NextKey} : registry'[k] = registry[k]]_vars

C14_Witness ==
    /\ Released
    /\ ~is_mock
    /\ registry[LastKey].status = "COMPLETED"
    /\ last.result.released_connections = registry[LastKey].parallel_hint
    /\ last.result.released_connections >= 1
    /\ last.result.current_usage >= 1

\* C15: sources are accounted independently: a call on source s leaves the
\* registrations and the usage of every other source as they were, and what
\* check_admission answers for s is what it answers when the registry holds
\* the registrations of s alone and the limits cache the limits of s alone.
C15_SourcesIndependent ==
    [][(last' # last \/ registry' # registry) =>
          LET s == last'.src_db_id
              own == RegistrationsOf(registry, s)
              cache == [k \in DOMAIN limits_cache \cap {s} |-> limits_cache[k]]
          IN /\ \A other \in Sources \ {s} :
                   /\ RegistrationsOf(registry', other) = RegistrationsOf(registry, other)
                   /\ get_current_usage(registry', other, FALSE) = CurrentUsage(other)
             /\ last'.action = "acquire" =>
                   \E f \in AdmissionFailures(own, cache, is_mock, s, last'.parallel_hint) :
                       LET alone == check_admission(own, cache, is_mock, s,
                                                    last'.dag_run_id,
                                                    last'.parallel_hint, now, f)
                       IN /\ last'.result = alone.result
                          /\ RegistrationsOf(registry', s) = alone.registry]_vars

C15_Witness ==
    /\ Denied
    /\ last.src_db_id = ADW_SRC_DB_ID
    /\ CurrentUsage(UNKNOWN_SRC_DB_ID) >= MaxParallel
    /\ CurrentUsage(ADW_SRC_DB_ID) >= 1

Clamp(x, lo, hi) == Max(lo, Min(x, hi))

Estimated == last.action = "estimate_wait_time"

\* C16 as stated: a denial's wait_seconds is
\* clamp(default_wait + 10 * floor(|running| / 10), default_wait, max_wait),
\* and lies between default_wait and max_wait, for any number of running
\* batches and any configured default_wait and max_wait.
C16_WaitIsClampedQueueDelay ==
    Estimated =>
        /\ last.result = Clamp(last.default_wait_seconds
                                 + QUEUE_STEP_SECONDS
                                     * (last.running_count \div QUEUE_BATCHES_PER_STEP),
                               last.default_wait_seconds, last.max_wait_seconds)
        /\ last.default_wait_seconds <= last.result
        /\ last.result <= last.max_wait_seconds

\* C16 as amended: the queue delay stops growing at 5 steps, that is
\* wait_seconds =
\* clamp(default_wait + 10 * min(floor(|running| / 10), 5), default_wait, max_wait)
\* and default_wait <= wait_seconds <= max_wait, whenever the configured
\* default_wait is at most max_wait.
C16_WaitIsClampedCappedQueueDelay ==
    (Estimated /\ last.default_wait_seconds <= last.max_wait_seconds) =>
        /\ last.result = Clamp(last.default_wait_seconds
                                 + QUEUE_STEP_SECONDS
                                     * Min(last.running_count \div QUEUE_BATCHES_PER_STEP,
                                           QUEUE_FACTOR_CAP),
                               last.default_wait_seconds, last.max_wait_seconds)
        /\ last.default_wait_seconds <= last.result
        /\ last.result <= last.max_wait_seconds

C16_Witness ==
    /\ Estimated
    /\ last.running_count > QUEUE_BATCHES_PER_STEP * QUEUE_FACTOR_CAP + QUEUE_BATCHES_PER_STEP
    /\ last.result = last.default_wait_seconds + QUEUE_FACTOR_CAP * QUEUE_STEP_SECONDS
    /\ last.result < last.max_wait_seconds

Adjusted == last.action = "adjust_hint"

\* C18: parse(adjust(h, n)) = n for any hint h (empty, with a PARALLEL(k)
\* lexeme, or non-empty with none) and any n >= 1.
C18_ParseOfAdjust ==
    (Adjusted /\ last.parallel >= 1) =>
        parse_parallel_hint(last.result, DEFAULT_PARSED_PARALLEL) = last.parallel

\* C19: adjust(h, n) replaces the first PARALLEL(k) lexeme of h alone by
\* PARALLEL(n): every other lexeme of h, a later PARALLEL lexeme too, is in
\* the result at its place.
C19_AdjustReplacesFirstOnly ==
    (Adjusted /\ ParallelMatches(last.hint) # {}) =>
        /\ Len(last.result) = Len(last.hint)
        /\ last.result[FirstMatch(last.hint)] = ParallelLexeme(last.parallel)
        /\ \A i \in DOMAIN last.hint \ {FirstMatch(last.hint)} :
              last.result[i] = last.hint[i]

\* the fields an action of the handler requires
RequiredFields(action) ==
    IF action = "acquire"
    THEN <<"dag_id", "dag_run_id", "src_db_id">>
    ELSE <<"dag_run_id", "src_db_id">>

\* the event lacks one of them
LacksField(event) ==
    \E i \in DOMAIN RequiredFields(event.action) :
        event[RequiredFields(event.action)[i]] = None

\* C17: an acquire or release request that lacks a required field returns
\* an error response that names the required fields, and the registry is
\* left as it was; a request that supplies all of them is not rejected as
\* missing fields.
C17_MissingFieldsRejected ==
    [][(last'.action = "lambda_handler"
        /\ last'.event.action \in {"acquire", "release"})
       => /\ LacksField(last'.event) =>
                /\ "required" \in DOMAIN last'.response
                /\ last'.response.required = RequiredFields(last'.event.action)
                /\ registry' = registry
          /\ ~LacksField(last'.event) =>
                "required" \notin DOMAIN last'.response]_vars

\* C20: however a PatternChain is built (max_adjustment argument or
\* environment variable), its max_adjustment is at most 0, and
\* get_total_adjustment is max(sum of the recognized contexts'
\* confidence_adjustment, max_adjustment), which lies in [max_adjustment, 0].
C20_TotalAdjustmentWithinFloor ==
    /\ last.action \in {"PatternChain", "get_total_adjustment"} =>
          last.max_adjustment <= 0
    /\ last.action = "get_total_adjustment" =>
          /\ last.total = Max(SumSeq(last.recognized), last.max_adjustment)
          /\ last.max_adjustment <= last.total
          /\ last.total <= 0

\* the sequence of the search: requested halved k times, each value
\* clamped upward to min_parallel
RECURSIVE HalvedClamped(_, _, _)
HalvedClamped(requested, min_parallel, k) ==
    IF k = 0
    THEN requested
    ELSE Max(min_parallel, HalvedClamped(requested, min_parallel, k - 1) \div 2)

\* the sequence is constant from here on, for the requests of the model
Halvings == 1..(2 * MaxParallel + 2)

\* the places of the sequence whose value is acceptable
FitsAt(current_usage, threshold, requested, min_parallel) ==
    {k \in Halvings :
        /\ HalvedClamped(requested, min_parallel, k) >= min_parallel
        /\ current_usage + HalvedClamped(requested, min_parallel, k) <= threshold}

FirstFit(current_usage, threshold, requested, min_parallel) ==
    LET fits == FitsAt(current_usage, threshold, requested, min_parallel)
    IN IF fits = {}
       THEN None
       ELSE Some(HalvedClamped(requested, min_parallel,
                               CHOOSE k \in fits : \A j \in fits : k <= j))

FindReturned == last.action = "find_acceptable_parallel" /\ last.returned

\* C24: for all current_usage, threshold, requested and min_parallel,
\* _find_acceptable_parallel returns the first value of the sequence
\* requested halved repeatedly and clamped upward to min_parallel that is
\* at least min_parallel and fits under the threshold, None when no value of
\* the sequence does; and every call returns.
C24_FindReturnsFirstFit ==
    /\ [](FindReturned =>
            last.result = FirstFit(last.current_usage, last.threshold,
                                   last.requested, last.min_parallel))
    /\ (Finding ~> FindReturned)

\* C25: check_admission repeated for a batch that is admitted and RUNNING,
\* with the same key and the same requested parallel and nothing in between,
\* returns the same allowed and parallel as the first call and leaves the
\* source's current usage as it was.
C25_ReadmissionIdempotent ==
    [][(/\ Admitted
        /\ LastKey \in DOMAIN registry
        /\ registry[LastKey].status = "RUNNING"
        /\ last'.action = "acquire"
        /\ ~last'.raised
        /\ NextKey = LastKey
        /\ last'.parallel_hint = last.parallel_hint
        /\ log' = {})
       => /\ last'.result.allowed = last.result.allowed
          /\ last'.result.parallel = last.result.parallel
          /\ get_current_usage(registry', last.src_db_id, FALSE)
                = get_current_usage(registry, last.src_db_id, FALSE)]_vars

\* the agent answered that the connections are short
ReportsShortage ==
    /\ last.invoked
    /\ "allowed" \in DOMAIN TheValue(last.response)
    /\ ~TheValue(last.response).allowed
    /\ TheValue(last.response).reason = "connection_limit_exceeded"

\* the agent answered with an error response
ReportsError == last.invoked /\ "error" \in DOMAIN TheValue(last.response)

\* C22: _acquire_connection raises only when the agent reports a connection
\* shortage; when the invocation fails or the handler answers with an error
\* response it raises nothing and returns None.
C22_RaisesOnlyOnShortage ==
    (last.action = "_acquire_connection" /\ last.enabled) =>
        /\ last.raised => ReportsShortage
        /\ (~last.invoked \/ ReportsError) =>
              ~last.raised /\ last.returned = None

\* C26: check_admission returns allowed=false only when current_usage +
\* min_parallel exceeds the threshold: while min_parallel connections fit,
\* a request of any size is admitted, in full or downgraded.
C26_NoNeedlessWait ==
    Denied =>
        CurrentUsage(last.src_db_id) + MinParallel(last.src_db_id)
            > Threshold(last.src_db_id)

\* a request of 1 or more is denied beside a running batch that is within
\* the threshold
C26_Witness ==
    /\ Denied
    /\ last.parallel_hint >= 1
    /\ CurrentUsage(last.src_db_id) >= 1
    /\ CurrentUsage(last.src_db_id) <= Threshold(last.src_db_id)

\* the handler admitted an acquire request in the step
HandlerAdmits ==
    /\ last'.action = "lambda_handler"
    /\ last'.event.action = "acquire"
    /\ "allowed" \in DOMAIN last'.response
    /\ last'.response.allowed

\* C27: every registration committed through the acquire action has
\* parallel_hint >= 1, whatever integer the request carried, so the usage
\* of the source is never negative and an admission never lowers it.
C27_CommittedParallelPositive ==
    [][HandlerAdmits =>
          LET s == TheValue(last'.event.src_db_id)
          IN /\ \A k \in DOMAIN registry' : registry'[k].parallel_hint >= 1
             /\ get_current_usage(registry', s, FALSE) >= 0
             /\ get_current_usage(registry', s, FALSE)
                   >= get_current_usage(registry, s, FALSE)]_vars

\* C28: the status map has an entry for every source that has a RUNNING
\* registration, the sources admitted under the default limits included.
C28_StatusCoversRunningSources ==
    last.action = "status" =>
        \A s \in Sources :
            get_running_batches(registry, s, FALSE) # {}
                => str(s) \in DOMAIN last.summary

DetectedAnomaly == last.action = "detect_anomaly" /\ last.result # None

AnomalyResult == TheValue(last.result)

NumberDetected ==
    Cardinality({i \in 1..3 : AnomalyResult.detection_results[i].detected})

\* C21: for every series the detector accepts the combined confidence lies
\* in [0, 1], and two results of a detector with the same confidence have
\* the same severity.
C21_ConfidenceBoundedSeverityDetermined ==
    /\ [](DetectedAnomaly =>
             AnomalyResult.confidence_score >= 0
             /\ AnomalyResult.confidence_score <= Milli)
    /\ [][(/\ last.action = "detect_anomaly"
           /\ last.result # None
           /\ last'.action = "detect_anomaly"
           /\ last'.result # None
           /\ TheValue(last'.result).confidence_score
                 = TheValue(last.result).confidence_score)
          => TheValue(last'.result).severity = TheValue(last.result).severity]_vars

\* the weighted sum of the scores is above 1 and the confidence is 1
C21_Witness ==
    /\ DetectedAnomaly
    /\ AnomalyResult.confidence_score = Milli
    /\ AnomalyResult.severity = "high"
    /\ AnomalyResult.detection_results[1].score * last.thresholds.ratio_weight
         + AnomalyResult.detection_results[2].score * last.thresholds.stddev_weight
         > Milli * Milli

\* C29: with the default weights a detector that did not detect has score
\* 0, and detect_anomaly reports is_anomaly exactly when at least two of the
\* three detectors detected.
C29_AnomalyIffTwoDetect ==
    (DetectedAnomaly /\ last.thresholds = DefaultThresholds) =>
        /\ \A i \in 1..3 :
              ~AnomalyResult.detection_results[i].detected
                 => AnomalyResult.detection_results[i].score = 0
        /\ AnomalyResult.is_anomaly <=> NumberDetected >= 2

\* one detector alone detected, with its full score, and no anomaly is
\* reported
C29_Witness ==
    /\ DetectedAnomaly
    /\ last.thresholds = DefaultThresholds
    /\ NumberDetected = 1
    /\ AnomalyResult.detection_results[1].score = Milli
    /\ ~AnomalyResult.is_anomaly

----------------------------------------------------------------------------
\* the entry an inject_<scenario> call tracks is the one its push addressed
TracksPushed(entry, request) ==
    /\ request.method = "POST"
    /\ request.url = MetricsUrl(entry.job, entry.grouping_key)

Answered200Or202(requests) ==
    {i \in 1..Len(requests) :
        requests[i].status \in {Some(HTTP_OK), Some(HTTP_ACCEPTED)}}

InjectCalls == InjectorActions \ {"MetricInjector", "clear_metrics"}

\* C23: every inject_<scenario> call appends exactly one entry at the end of
\* the tracking list, the entries before it unchanged, whether or not its
\* push succeeded; clear_metrics sends one DELETE per tracked entry, in order
\* and to the entry's job and grouping key, returns the number of DELETEs
\* answered with 200 or 202, and leaves the tracking list empty.
C23_InjectTracksClearEmpties ==
    [][last.action \in InjectorActions =>
        /\ last'.action \in InjectCalls =>
              /\ Len(last'.injected_metrics) = Len(last.injected_metrics) + 1
              /\ SubSeq(last'.injected_metrics, 1, Len(last.injected_metrics))
                    = last.injected_metrics
              /\ Len(last'.requests) = 1
              /\ TracksPushed(last'.injected_metrics[Len(last'.injected_metrics)],
                              last'.requests[1])
        /\ last'.action = "clear_metrics" =>
              /\ Len(last'.requests) = Len(last.injected_metrics)
              /\ \A i \in 1..Len(last.injected_metrics) :
                    /\ last'.requests[i].method = "DELETE"
                    /\ last'.requests[i].url
                          = MetricsUrl(last.injected_metrics[i].job,
                                       last.injected_metrics[i].grouping_key)
              /\ last'.cleared = Cardinality(Answered200Or202(last'.requests))
              /\ last'.injected_metrics = <<>>]_vars

\* two entries were tracked, and clear_metrics sent two DELETEs to two
\* addresses, of which only the one answered 202 counted
C23_Witness ==
    /\ last.action = "clear_metrics"
    /\ Len(last.requests) = 2
    /\ last.requests[1].status = Some(HTTP_ACCEPTED)
    /\ last.requests[2].status = None
    /\ last.requests[1].url # last.requests[2].url
    /\ last.cleared = 1
    /\ last.injected_metrics = <<>>

\* an entry is tracked although its push failed
C23_FailedPushTracked ==
    /\ last.action \in InjectCalls
    /\ ~StatusPasses(last.requests[1].status)
    /\ Len(last.injected_metrics) = 2

----------------------------------------------------------------------------
InSendMessage == last.action = "_send_message" /\ last.at \in {"post", "refresh"}
SendMessageReturned == last.action = "_send_message" /\ last.at = "returned"

\* C30: _send_message always returns, and while it runs and when it has
\* returned it has refreshed the token at most once and posted the message
\* at most twice: a second token-expired answer ends the call with False.
C30_AtMostOneRefresh ==
    /\ [](last.action = "_send_message" =>
             /\ last.refreshes <= 1
             /\ last.posts <= 2
             /\ (last.posts = 2 /\ last.at # "post") =>
                    (last.at = "returned" /\ (last.refreshes = 1)))
    /\ (InSendMessage ~> SendMessageReturned)

====
